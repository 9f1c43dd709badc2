-------------------------- MODULE TranscriptLayout ---------------------------
(****************************************************************************)
(* How a message of the transcript view is laid out (transcript.rs): a tree *)
(* of components, each of which tells its height for a width and divides    *)
(* the area it is given among its parts by what those tell.                 *)
(*                                                                          *)
(* A text is the sequence of the lengths of its lines, in cells.  ratatui   *)
(* wraps words, here a line breaks at the cell.  Heights fit u16.           *)
(****************************************************************************)
EXTENDS Naturals, Sequences, SequencesExt

CONSTANTS
    LayoutMessages,     \* messages: sequences of blocks, see blocks
    LayoutWidths,       \* widths of the area
    IndentStep          \* INDENT_STEP

ASSUME LayoutAssumption == IndentStep \in Nat \ {0} /\ LayoutWidths \subseteq Nat

VARIABLES laid_out, layout_width    \* the message, and the width of the area

layoutVars == <<laid_out, layout_width>>

LayoutInit == laid_out \in LayoutMessages /\ layout_width \in LayoutWidths

-----------------------------------------------------------------------------
(* Components: a text, or a box of parts that are indented by some steps *)

TextOf(name, lines) == [box |-> FALSE, name |-> name, lines |-> lines]
Box(parts)          == [box |-> TRUE, parts |-> parts]
Part(steps, child)  == [steps |-> steps, child |-> child]

\* A header or a key, by its length.
Line(name, length) == TextOf(name, <<length>>)

\* text_component: a text that is empty has a line all the same.
ContentText(lines) == TextOf("content", IF lines = <<>> THEN <<0>> ELSE lines)

TextBlock(block) ==
    Box(<<Part(0, Line("- type", 2)), Part(1, Line("text", 1)), Part(2, ContentText(block.lines))>>)

ThinkingBlock(block) ==
    Box(<<Part(0, Line("- type", 2)), Part(1, Line("thinking", 2)),
          Part(2, ContentText(block.lines))>>
        \o (IF block.signature = 0 THEN <<>>
            ELSE <<Part(1, Line("signature", block.signature))>>))

ToolUseBlock(block) ==
    Box(<<Part(0, Line("- type", 2)), Part(1, Line("id", block.id)), Part(1, Line("name", 1)),
          Part(1, Line("input", 1)), Part(2, ContentText(block.lines))>>)

RECURSIVE blocks(_)

\* TranscriptContentSection: what a tool answered is a text or blocks.
ContentSection(block) ==
    IF block.nested = <<>>
    THEN Box(<<Part(0, Line("text", 1)), Part(1, ContentText(block.lines))>>)
    ELSE Box(<<Part(0, Line("blocks", 1)), Part(1, blocks(block.nested))>>)

ToolResultBlock(block) ==
    Box(<<Part(0, Line("- type", 2)), Part(1, Line("tool_use_id", block.id))>>
        \o (IF block.is_error THEN <<Part(1, Line("is_error", 1))>> ELSE <<>>)
        \o <<Part(1, Line("content", 1)), Part(2, ContentSection(block))>>)

block_component(block) ==
    CASE block.type = "text"        -> TextBlock(block)
      [] block.type = "thinking"    -> ThinkingBlock(block)
      [] block.type = "tool_use"    -> ToolUseBlock(block)
      [] block.type = "tool_result" -> ToolResultBlock(block)

blocks(list) == Box([i \in DOMAIN list |-> Part(0, block_component(list[i]))])

\* build_segments
Segments(message) ==
    Box(<<Part(0, Line("role", 1)),
          Part(0, Box(<<Part(0, Line("blocks", 1)), Part(1, blocks(message))>>))>>)

-----------------------------------------------------------------------------
(* Heights and areas *)

Sum(numbers) == FoldLeft(+, 0, numbers)

\* line_height
LineHeight(length, width) == IF length = 0 THEN 1 ELSE (length + width - 1) \div width

\* What an indented area has left: saturating_sub, and indented_area.
Indented(width, steps) == IF width <= steps * IndentStep THEN 0 ELSE width - steps * IndentStep

\* Mutant of ChildWidth: all parts are measured as if they were fields.
FieldWidth(width, part) == Indented(width, IF part.steps = 0 THEN 0 ELSE 1)

\* The width a part is measured with.
ChildWidth(width, part) == Indented(width, part.steps)

\* child_height: a part without room is left out.
RECURSIVE HeightOf(_, _)
HeightOf(of, width) ==
    IF width = 0 THEN 0
    ELSE IF of.box THEN Sum([i \in DOMAIN of.parts |->
                              HeightOf(of.parts[i].child, ChildWidth(width, of.parts[i]))])
    ELSE Sum([i \in DOMAIN of.lines |-> LineHeight(of.lines[i], width)])

Gap == [x |-> 0, name |-> "", row |-> 0]

\* vertical_chunks: each part gets the rows it asked for, and draws no more than those.
Fitted(rows, height) ==
    [i \in 1..height |-> IF i \in DOMAIN rows THEN rows[i] ELSE Gap]

\* draw, in an area that begins at column x.
RECURSIVE Draw(_, _, _)
DrawPart(part, x, width) ==
    Fitted(Draw(part.child, x + part.steps * IndentStep, Indented(width, part.steps)),
           HeightOf(part.child, ChildWidth(width, part)))

Draw(of, x, width) ==
    IF width = 0 THEN <<>>
    ELSE IF of.box THEN FlattenSeq([i \in DOMAIN of.parts |-> DrawPart(of.parts[i], x, width)])
    ELSE [r \in 1..HeightOf(of, width) |-> [x |-> x, name |-> of.name, row |-> r]]

Drawn ==
    LET message == Segments(laid_out) IN
    Fitted(Draw(message, 0, layout_width), HeightOf(message, layout_width))

\* The terminal is resized, and the message drawn again.
LayoutNext == layout_width' \in LayoutWidths /\ UNCHANGED laid_out

LayoutSpec == LayoutInit /\ [][LayoutNext]_layoutVars

-----------------------------------------------------------------------------
(* The outline a reader expects: a list, each item with its depth *)

RECURSIVE OutlineOf(_, _)
OutlineOf(block, depth) ==
    LET field(name, length) == <<[depth |-> depth + 1, name |-> name, lines |-> <<length>>]>>
        body(lines, at) ==
            <<[depth |-> at, name |-> "content", lines |-> IF lines = <<>> THEN <<0>> ELSE lines]>>
        fields ==
            CASE block.type = "text" -> field("text", 1) \o body(block.lines, depth + 2)
              [] block.type = "thinking" ->
                   field("thinking", 2) \o body(block.lines, depth + 2)
                   \o (IF block.signature = 0 THEN <<>> ELSE field("signature", block.signature))
              [] block.type = "tool_use" ->
                   field("id", block.id) \o field("name", 1) \o field("input", 1)
                   \o body(block.lines, depth + 2)
              [] block.type = "tool_result" ->
                   field("tool_use_id", block.id)
                   \o (IF block.is_error THEN field("is_error", 1) ELSE <<>>)
                   \o field("content", 1)
                   \o (IF block.nested = <<>>
                       THEN <<[depth |-> depth + 2, name |-> "text", lines |-> <<1>>]>>
                            \o body(block.lines, depth + 3)
                       ELSE <<[depth |-> depth + 2, name |-> "blocks", lines |-> <<1>>]>>
                            \o FlattenSeq([i \in DOMAIN block.nested |->
                                             OutlineOf(block.nested[i], depth + 3)]))
    IN <<[depth |-> depth, name |-> "- type", lines |-> <<2>>]>> \o fields

Outline(message) ==
    <<[depth |-> 0, name |-> "role", lines |-> <<1>>],
      [depth |-> 0, name |-> "blocks", lines |-> <<1>>]>>
    \o FlattenSeq([i \in DOMAIN message |-> OutlineOf(message[i], 1)])

\* The rows of an item that fits at its depth.
ItemRows(item) ==
    LET x == item.depth * IndentStep IN
    IF layout_width <= x THEN <<>>
    ELSE [r \in 1..Sum([i \in DOMAIN item.lines |-> LineHeight(item.lines[i], layout_width - x)])
            |-> [x |-> x, name |-> item.name, row |-> r]]

\* Whatever the width, the view shows each line of the message once, whole, in order and at
\* its depth: no part is measured narrower or wider than it is drawn, and so cut, or followed
\* by a gap. What the width leaves no column for is left out, and only that.
MessageIsDrawnWhole ==
    LET outline == Outline(laid_out)
    IN Drawn = FlattenSeq([i \in DOMAIN outline |-> ItemRows(outline[i])])
=============================================================================
