--------------------------- MODULE BranchService ---------------------------
(***************************************************************************)
(* What the variants of a scene promise, whatever the interleaving of      *)
(* requests: an edit is made once, on one branch or beside all of them; an *)
(* open branch only ever gains edits that were made on it; a fork starts   *)
(* with what its source held when the fork was asked for; and what         *)
(* happens on or to one branch changes no other.                           *)
(***************************************************************************)
CONSTANTS Branches, Edits, Ids, Clients, Nothing

VARIABLES
  edit,     \* every edit that was made: its id, or Nothing, and the branch it is on
  state,    \* [Branches -> {"unborn", "open", "closed"}]
  content,  \* [Branches -> SUBSET Edits] what an open branch holds
  copies    \* [Clients -> SUBSET SUBSET Edits] what a fork in flight will start with

Init ==
  /\ edit = [e \in {} |-> Nothing]
  /\ state = [b \in Branches |-> "unborn"]
  /\ content = [b \in Branches |-> {}]
  /\ copies = [c \in Clients |-> {}]

\* a new edit, with an id no other has
Make(e, i, b) ==
  /\ e \notin DOMAIN edit
  /\ i # Nothing => \A f \in DOMAIN edit : edit[f].id # i
  /\ edit' = [f \in DOMAIN edit \cup {e} |-> IF f = e THEN [id |-> i, on |-> b] ELSE edit[f]]

\* beside all branches
Write(e, i) == Make(e, i, Nothing) /\ UNCHANGED <<state, content, copies>>

Append(b, e, i) ==
  /\ state[b] = "open"
  /\ Make(e, i, b)
  /\ content' = [content EXCEPT ![b] = @ \cup {e}]
  /\ UNCHANGED <<state, copies>>

\* client c copies a branch or begins with nothing
Copy(c, b) ==
  /\ state[b] = "open"
  /\ copies' = [copies EXCEPT ![c] = {content[b]}]
  /\ UNCHANGED <<edit, state, content>>

CopyNothing(c) ==
  /\ copies' = [copies EXCEPT ![c] = {{}}]
  /\ UNCHANGED <<edit, state, content>>

GiveUp(c) ==
  /\ copies' = [copies EXCEPT ![c] = {}]
  /\ UNCHANGED <<edit, state, content>>

\* what c copied becomes a branch of its own
Open(c, b) ==
  /\ state[b] = "unborn"
  /\ \E S \in copies[c] : content' = [content EXCEPT ![b] = S]
  /\ state' = [state EXCEPT ![b] = "open"]
  /\ copies' = [copies EXCEPT ![c] = {}]
  /\ UNCHANGED edit

Close(b) ==
  /\ state[b] # "unborn"
  /\ state' = [state EXCEPT ![b] = "closed"]
  /\ content' = [content EXCEPT ![b] = {}]
  /\ UNCHANGED <<edit, copies>>

Next ==
  \/ \E c \in Clients :
        \/ GiveUp(c) \/ CopyNothing(c)
        \/ \E b \in Branches : Copy(c, b) \/ Open(c, b)
  \/ \E b \in Branches : Close(b)
  \/ \E e \in Edits, i \in Ids \cup {Nothing} :
        Write(e, i) \/ \E b \in Branches : Append(b, e, i)

Spec == Init /\ [][Next]_<<edit, state, content, copies>>
=============================================================================
