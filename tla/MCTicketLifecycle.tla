--------------------------- MODULE MCTicketLifecycle ---------------------------
(***************************************************************************)
(* Model checking of TicketLifecycle in three scopes, one per behaviour: a *)
(* queue that grows and rewires its dependencies, one ticket that meets    *)
(* every verb, and one ticket whose file is edited by hand.  No verb reads *)
(* more than its record and the graph, so each scope keeps the other       *)
(* inputs at one value.                                                    *)
(***************************************************************************)
EXTENDS TicketLifecycle, FiniteSetsExt

CONSTANTS
  MaxMutations,  \* bound: receipts of one behaviour, per scope
  MaxEntries     \* what the file of a record takes: holds, approvals and dependencies

VARIABLE scope

MCTemplates ==
  {[body |-> "b", priority |-> "P1", kind |-> "FEATURE", criteria |-> {}, gates |-> {}, class |-> "AUTONOMOUS",
    effects |-> "QUALIFIED", supersedes |-> NoTicket, source |-> "NATIVE"],
   [body |-> "b", priority |-> "P1", kind |-> "FEATURE", criteria |-> {"c"}, gates |-> {}, class |-> "APPROVAL_REQUIRED",
    effects |-> "UNKNOWN", supersedes |-> NoTicket, source |-> "IMPORT"]}

\* No dependency; one edge of each obligation to every token, and a gate that
\* is missing or one too many; two edges, in either order, and one edge twice.
MCDependencyLists ==
  LET edge(t, o, g) == [on |-> t, obligation |-> o, gate |-> g]
      completed(t) == edge(t, "COMPLETED", NoGate)
      first == [serial |-> 1, auto |-> TRUE]
      second == [serial |-> 2, auto |-> TRUE]
  IN {<< >>}
     \cup {<<completed(t)>> : t \in Token}
     \cup {<<edge(first, "GATE_PASSED", g)>> : g \in Gates}
     \cup {<<edge(first, "GATE_PASSED", NoGate)>>, <<completed(first), completed(first)>>,
           <<completed(first), completed(second)>>, <<completed(second), completed(first)>>}
     \cup {<<edge(first, "COMPLETED", g)>> : g \in Gates}

\* The bytes that grow are the entries of the lists.
MCFitsFile(r) == Len(r.holds) + Len(r.approvals) + Len(r.deps) <= MaxEntries

Mutations == MapThenSumSet(LAMBDA t : ticket[t].rev, DOMAIN ticket)

Plain == CHOOSE p \in Templates : p.criteria # {}

MCInit == TicketInit /\ scope \in {"graph", "record", "file"}

MCNext ==
  /\ UNCHANGED scope
  /\ Mutations < MaxMutations
  /\ \/ /\ scope = "graph"
        /\ \/ \E who \in Actors, local \in Token \cup {NoToken}, deps \in DependencyLists :
                Create(who, local, Plain, deps)
           \/ SetDependencies \/ Archive \/ Restore
     \/ /\ scope # "graph" /\ ticket = << >>
        /\ \E p \in Templates : Create("OWNER", NoToken, p, << >>)
     \/ /\ scope = "record"
        /\ \/ Refine \/ Prioritize \/ SetDependencies \/ SetGates \/ SetEffects
           \/ PlaceHold \/ ReleaseHold \/ Reopen \/ Archive \/ Restore \/ CompleteManual
           \/ GrantApproval \/ RevokeApproval
     \/ /\ scope = "file"
        /\ Refine \/ PlaceHold \/ CompleteManual \/ GrantApproval \/ AdoptFile

MCSpec == MCInit /\ [][MCNext]_<<tickets, scope>>
=============================================================================
