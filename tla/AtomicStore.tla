------------------------------- MODULE AtomicStore -------------------------------
(***************************************************************************)
(* What a caller of the fixture store is promised: a versioned store in    *)
(* which every mutating command takes effect at one instant, at most once  *)
(* per request id, and only against the values it was decided on.  There   *)
(* are no files, slots, projections, faults or crashes here; a command     *)
(* that failed half way either is in the log or never happened.            *)
(***************************************************************************)
EXTENDS Integers

CONSTANTS
  Tickets, Releases, Requests,  \* what the store keeps one value of each for
  Content,    \* the values, with NoFile for absence
  Command,    \* records with fields id, op, target, base and canon
  NoFile, NoCommand,
  MaxSeq      \* length of the log

VARIABLES
  log,        \* the committed commands in their order
  values,     \* the value of every name after the whole log
  settled,    \* length of the log prefix that every reader may rely on
  answers     \* <<command, position>> reported to callers as COMPLETED

absvars == <<log, values, settled, answers>>

Name == {"policy", "queue", "barrier"} \cup Tickets \cup Releases \cup Requests

Init ==
  /\ log = [n \in 1..MaxSeq |-> NoCommand]
  /\ values = [p \in Name |-> NoFile]
  /\ settled = 0 /\ answers = {}

Unused(id) == \A n \in 1..MaxSeq : log[n] = NoCommand \/ log[n].id # id

\* What the command was decided on still holds when it takes effect.
Current(c) ==
  /\ values[c.id] = NoFile
  /\ c.op = "INIT" => \A p \in Name : values[p] = NoFile
  /\ c.op \in {"MUTATE", "POLICY_UPDATE"} => values[c.target] = c.base
  /\ c.op \in {"KEEP_JOURNAL", "ADOPT_FILE"} => values[c.target] # NoFile
  /\ c.op = "KEEP_JOURNAL" => values[c.target] = c.canon
  /\ c.op = "PAUSE" => values["barrier"] = NoFile
  /\ c.op = "UNPAUSE" => values["barrier"] # NoFile

\* The names a command may give a new value to.
Scope(c) ==
  {c.id} \cup
  CASE c.op = "INIT" -> {"policy", "queue"}
    [] c.op = "CREATE" -> {"queue"} \cup {t \in Tickets : values[t] = NoFile}
    [] c.op = "KEEP_JOURNAL" -> {}
    [] OTHER -> {c.target}

\* The command that takes effect in this step is the one the log gains.
Commit ==
  LET c == log'[settled + 1] IN
  /\ settled < MaxSeq /\ log[settled + 1] = NoCommand
  /\ c \in Command /\ log' = [log EXCEPT ![settled + 1] = c]
  /\ Unused(c.id) /\ Current(c)
  /\ values' \in [Name -> Content]
  /\ \A p \in Name \ Scope(c) : values'[p] = values[p]
  /\ c.op = "UNPAUSE" <=> values["barrier"] # NoFile /\ values'["barrier"] = NoFile
  /\ UNCHANGED <<settled, answers>>

Settle ==
  /\ settled < MaxSeq /\ log[settled + 1] # NoCommand
  /\ settled' = settled + 1
  /\ UNCHANGED <<log, values, answers>>

Answer ==
  /\ \E n \in 1..settled : answers' = answers \cup {<<log[n], n>>}
  /\ UNCHANGED <<log, values, settled>>

Next == Commit \/ Settle \/ Answer

Spec == Init /\ [][Next]_absvars
=============================================================================
