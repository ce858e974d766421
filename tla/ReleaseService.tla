--------------------------- MODULE ReleaseService ---------------------------
(***************************************************************************)
(* What a deploy promises whoever reads current.json, wherever it fails or *)
(* is cut short: what serves changes only after a switch is announced and  *)
(* before its end is recorded, the edge aside, which a restart may put on  *)
(* files that were left installed; a release is recorded as deployed when  *)
(* it serves; and what is recorded after a rollback is the release on      *)
(* record before the switch, which serves again unless some deploy lapsed. *)
(***************************************************************************)
CONSTANTS Releases, Nothing

VARIABLES
  record,  \* a status and the release it names
  live,    \* the release that serves in every part, or Nothing
  behind,  \* the release that serves behind the edge, or Nothing
  astray,  \* the edge was restarted over files that no deploy had it load
  back,    \* {the release to go back to} while a switch is on, else {}
  doubt    \* some deploy ended without undoing or recording all it did

Init ==
  /\ record = [status |-> "none", sha |-> Nothing]
  /\ live = Nothing /\ behind = Nothing /\ astray = FALSE
  /\ back = {} /\ doubt = FALSE

Announce ==
  /\ back = {}
  /\ record' = [status |-> "transitioning", sha |-> record.sha]
  /\ back' = {record.sha}
  /\ UNCHANGED <<live, behind, astray, doubt>>

Change ==
  /\ back # {}
  /\ live' \in Releases \cup {Nothing} /\ behind' \in Releases \cup {Nothing}
  /\ astray' \in {astray, FALSE}
  /\ UNCHANGED <<record, back, doubt>>

Finish ==
  /\ back # {} /\ record.status = "transitioning" /\ live # Nothing /\ ~astray
  /\ record' = [status |-> "deployed", sha |-> live]
  /\ back' = {}
  /\ UNCHANGED <<live, behind, astray, doubt>>

Fail(r) ==
  /\ back # {} /\ record.status = "transitioning"
  /\ record' = [status |-> "failed", sha |-> r]
  /\ UNCHANGED <<live, behind, astray, back, doubt>>

Restore ==
  /\ record.status = "failed"
  /\ \E b \in back :
       /\ live = b \/ doubt
       /\ record' = [status |-> "rolled_back_to", sha |-> b]
  /\ back' = {}
  /\ UNCHANGED <<live, behind, astray, doubt>>

\* a deploy breaks off, or the host restarts after one did: the record stays as it is,
\* and so does what serves if no switch is on, except that the edge may go astray
Lapse ==
  /\ doubt' = TRUE /\ back' = {}
  /\ live' \in Releases \cup {Nothing} /\ behind' \in Releases \cup {Nothing}
  /\ astray' \in {astray, TRUE}
  /\ back = {} =>
       behind' = behind /\ (live' = live \/ (astray' /\ live' \in {Nothing, behind}))
  /\ UNCHANGED record

Next ==
  \/ Announce \/ Change \/ Finish \/ Restore \/ Lapse
  \/ \E r \in Releases : Fail(r)

Spec == Init /\ [][Next]_<<record, live, behind, astray, back, doubt>>
=============================================================================
