---------------------------- MODULE Notifications ----------------------------
(****************************************************************************)
(* What the user is told when looking elsewhere: the chat's rules for       *)
(* replies, questions and idling (chat.rs, idle_tracker.rs), and the bytes  *)
(* a notification becomes (notifications.rs). Every tick polls the idle     *)
(* tracker, whatever the chat is doing; only keys are activity.             *)
(****************************************************************************)
EXTENDS Naturals, Sequences, SequencesExt, SequenceFilters

CONSTANTS
    Settings,        \* notification settings, see SettingsType
    Letters,         \* the characters of a title or a body, see LetterType
    MaxLetters,      \* bound on the length of both
    FieldLength,     \* MAX_TITLE_LEN and MAX_BODY_LEN
    MaxAge,          \* bound on the time that is told apart
    Never            \* no notification since the last activity

SettingsType ==
    [when : {"Focused", "Unfocused", "Always"}, timeout : Nat, max : Nat, interval : Nat,
     osc9 : BOOLEAN]

LetterType ==
    [kind : {"plain", "semicolon", "space", "newline", "control"}, bytes : Nat \ {0}]

ASSUME NotificationAssumption ==
    /\ Settings \subseteq SettingsType /\ FieldLength \in Nat /\ MaxAge \in Nat
    /\ Letters \subseteq LetterType /\ MaxLetters \in Nat
    /\ Never \notin Nat

VARIABLES
    settings,        \* config.ui.notifications
    terminal_focused,
    idle_for,        \* since last_interaction
    noticed_for,     \* since last_notification, or Never
    notifications_sent,
    told,            \* history: the idle notifications since the last key
    field,           \* history: title or body of what was just notified,
    sent_field       \*   and what was sent of it

noticeVars == <<settings, terminal_focused, idle_for, noticed_for, notifications_sent, told,
                field, sent_field>>

NoticeInit ==
    /\ settings \in Settings
    /\ terminal_focused = TRUE
    /\ idle_for = 0 /\ noticed_for = Never /\ notifications_sent = 0
    /\ told = <<>> /\ field = <<>> /\ sent_field = <<>>

-----------------------------------------------------------------------------
(* normalize_field *)

\* The end of a line and a tab become a space, other control characters go, and in an
\* OSC 9 sequence, whose title ends with a semicolon, that becomes a colon.
Replaced(c) ==
    IF c.kind = "newline" THEN [c EXCEPT !.kind = "space"]
    ELSE IF c.kind = "semicolon" /\ settings.osc9 THEN [c EXCEPT !.kind = "plain"] ELSE c

\* One character: spaces that follow one are dropped, and the first that does not fit ends it.
Normalised(acc, c) ==
    LET as == Replaced(c)
        doubled == as.kind = "space" /\ acc.out # <<>> /\ Last(acc.out).kind = "space"
    IN IF acc.full \/ c.kind = "control" \/ doubled THEN acc
       ELSE IF acc.length + as.bytes > FieldLength THEN [acc EXCEPT !.full = TRUE]
       ELSE [acc EXCEPT !.out = Append(@, as), !.length = @ + as.bytes]

Trimmed(text) ==
    LET solid == {i \in DOMAIN text : text[i].kind # "space"}
    IN IF solid = {} THEN <<>>
       ELSE SubSeq(text, CHOOSE i \in solid : \A j \in solid : i <= j,
                         CHOOSE i \in solid : \A j \in solid : i >= j)

NothingYet == [out |-> <<>>, length |-> 0, full |-> FALSE]

normalize_field(text) ==
    LET upto[n \in 0..Len(text)] ==
            IF n = 0 THEN NothingYet ELSE Normalised(upto[n - 1], text[n])
    IN Trimmed(upto[Len(text)].out)

\* send_notification, of one of the two fields
SendsField ==
    \E text \in SeqOf(Letters, MaxLetters) :
       /\ field' = text
       /\ sent_field' = normalize_field(text)

-----------------------------------------------------------------------------
(* The rules *)

focus_policy_allows ==
    CASE settings.when = "Focused"   -> terminal_focused
      [] settings.when = "Unfocused" -> ~terminal_focused
      [] settings.when = "Always"    -> TRUE

\* notify_reply_ready and notify_action_required; the bounds: while nobody is idle,
\* and one text after the other.
EventIsNoticed ==
    /\ focus_policy_allows /\ idle_for = 0 /\ field = <<>>
    /\ SendsField
    /\ UNCHANGED <<settings, terminal_focused, idle_for, noticed_for, notifications_sent, told>>

\* Mutant of Due: the time since the last one is not looked at.
DueByCount ==
    idle_for >= settings.timeout /\ notifications_sent < settings.max

Due ==
    /\ idle_for >= settings.timeout
    /\ notifications_sent < settings.max
    /\ noticed_for # Never => noticed_for >= settings.interval

\* on_tick, maybe_notify_idle, poll
IdleTick ==
    /\ focus_policy_allows /\ Due
    /\ notifications_sent' = notifications_sent + 1
    /\ noticed_for' = 0
    /\ told' = Append(told, [idle |-> idle_for, focused |-> terminal_focused])
    /\ UNCHANGED <<settings, terminal_focused, idle_for, field, sent_field>>

TimePasses ==
    /\ idle_for < MaxAge
    /\ idle_for' = idle_for + 1
    /\ noticed_for' = IF noticed_for = Never THEN Never ELSE noticed_for + 1
    /\ field' = <<>> /\ sent_field' = <<>>
    /\ UNCHANGED <<settings, terminal_focused, notifications_sent, told>>

\* record_activity
KeyIsActivity ==
    /\ idle_for' = 0 /\ noticed_for' = Never /\ notifications_sent' = 0 /\ told' = <<>>
    /\ field' = <<>> /\ sent_field' = <<>>
    /\ UNCHANGED <<settings, terminal_focused>>

update_terminal_focused ==
    /\ terminal_focused' = ~terminal_focused
    /\ field' = <<>> /\ sent_field' = <<>>
    /\ UNCHANGED <<settings, idle_for, noticed_for, notifications_sent, told>>

NoticeNext ==
    \/ EventIsNoticed \/ IdleTick \/ TimePasses \/ KeyIsActivity \/ update_terminal_focused

NoticeSpec == NoticeInit /\ [][NoticeNext]_noticeVars

-----------------------------------------------------------------------------
\* Between two keys the user is reminded as often as the settings say, not before the
\* timeout, never twice within an interval, and not while the policy is against it.
RemindersAreSpaced ==
    /\ Len(told) <= settings.max
    /\ \A i \in DOMAIN told :
          /\ told[i].idle >= settings.timeout
          /\ settings.when # "Always" => told[i].focused = (settings.when = "Focused")
          /\ i > 1 => told[i].idle >= told[i - 1].idle + settings.interval

\* What is sent is one field of one terminal sequence: nothing in it ends the sequence or
\* begins another field, it has the length it may have, no blank edge and no run of spaces,
\* and it is lost only where the text had nothing to show.
FieldIsClean ==
    /\ Total(sent_field, "bytes") <= FieldLength
    /\ \A i \in DOMAIN sent_field :
          /\ sent_field[i].kind \notin {"control", "newline"}
          /\ settings.osc9 => sent_field[i].kind # "semicolon"
          /\ sent_field[i].kind = "space" =>
                /\ i \notin {1, Len(sent_field)}
                /\ sent_field[i + 1].kind # "space"
    /\ field # <<>> /\ Head(field).kind \in {"plain", "semicolon"} =>
          sent_field # <<>> \/ Head(field).bytes > FieldLength

NoticesAreMeant == RemindersAreSpaced /\ FieldIsClean
=============================================================================
