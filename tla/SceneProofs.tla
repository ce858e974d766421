---------------------------- MODULE SceneProofs ----------------------------
(***************************************************************************)
(* What holds of the revisions and variants of a project however requests  *)
(* interleave, for any number of them.                                     *)
(*                                                                         *)
(* The argument.  Revisions only get more, so what a request read of them  *)
(* stays true while it waits to be written (ReadOK); a variant that has    *)
(* no row yet has no revision (BornFirst), so that a new one starts with   *)
(* nothing to lose; and an append that finds the head where it expects it  *)
(* makes the old head the parent of the new one.                           *)
(*                                                                         *)
(* The walk up the parents from a head to a base is well defined, because  *)
(* a parent comes before its child; the walk of a variant holds all of its *)
(* own revisions and none that is canonical (BInv).  Where requests do not *)
(* overlap, what one has read is still so when it writes (Reads).          *)
(*                                                                         *)
(* The refinement of BranchService reads each walk as a span (AsSpans):    *)
(* a new revision lies in no older span, so that one append adds one edit  *)
(* to the branch it names and nothing to any other branch or copy.         *)
(***************************************************************************)
EXTENDS SceneHistory, SequenceTheorems, WellFoundedInduction, TLAPS

\* what a request that waits to be written has read
ReadOK(r) ==
  /\ r.phase = "write" => r.tip <= Len(rev) /\ r.base <= Len(rev)
  /\ r.phase = "walk" => r.base <= Len(rev)
  /\ r.phase \in {"walk", "insert", "status"} => r.variant = None
  /\ r.phase = "write" /\ r.variant # None => r.tip = r.base
  /\ r.phase = "insert" => r.base \in Revs /\ r.tip \in Revs
  /\ r.phase = "delete" => r.variant \in Variants /\ var[r.variant].status # "absent"
  /\ r.phase = "status" => \A v \in Changed(r) : r.status[v] \in Stored

BornFirst == \A r \in Revs : rev[r].by # None => var[rev[r].by].status # "absent"

IInv ==
  /\ TypeOK
  /\ CommandOnce
  /\ VariantEditsKept
  /\ BornFirst
  /\ \A h \in Handlers : ReadOK(req[h])

-----------------------------------------------------------------------------
(* Appending to a sequence. *)

LEMMA Appended ==
  ASSUME NEW S, NEW s \in Seq(S), NEW x \in S, NEW t, t = Append(s, x)
  PROVE  /\ t \in Seq(S)
         /\ Len(t) = Len(s) + 1
         /\ t[Len(s) + 1] = x
         /\ \A i \in 1..Len(s) : t[i] = s[i]
  BY AppendProperties

\* The number of revisions is a natural number.
LEMMA LenNat == ASSUME TypeOK PROVE Len(rev) \in Nat
  BY LenProperties DEF TypeOK

\* Every revision is on a branch or canonical.
LEMMA BranchOf == ASSUME TypeOK PROVE \A q \in Revs : rev[q].by \in Variants \cup {None}
  <1>1. \A q \in Revs : rev[q] \in Revision
    BY ElementOfSeq DEF TypeOK, Revs
  <1>2. QED
    BY <1>1 DEF Revision

\* A handler without a request has the shape of one.
LEMMA IdleOK == Idle \in Request
  <1>1. 0 \in Number
    BY SceneAssumption DEF Number
  <1>2. NoStatus \in [Variants -> Status]
    BY DEF NoStatus, Status
  <1>3. QED
    BY <1>1, <1>2 DEF Idle, Request, Ops

\* a request that ends leaves the others as they were
LEMMA EndOK ==
  ASSUME IInv, NEW h \in Handlers, End(h), UNCHANGED <<rev, var>>
  PROVE  IInv'
  <1>1. req' \in [Handlers -> Request]
    BY IdleOK DEF IInv, TypeOK, End
  <1>2. \A g \in Handlers : ReadOK(req[g])'
    BY DEF IInv, TypeOK, End, ReadOK, Idle, Revs, Changed, Stored
  <1>3. QED
    BY <1>1, <1>2 DEF IInv, TypeOK, End, CommandOnce, VariantEditsKept, BornFirst, Revs, Live

\* ... and so does one that begins, having read what it needs
LEMMA BeginOK ==
  ASSUME IInv, NEW h \in Handlers, NEW r \in Request, Begin(h, r), ReadOK(r)
  PROVE  IInv'
  <1>1. req' \in [Handlers -> Request] /\ overlaps' \in 0..MaxOverlaps
    BY SceneAssumption DEF IInv, TypeOK, Begin
  <1>2. \A g \in Handlers : ReadOK(req[g])'
    BY DEF IInv, TypeOK, Begin, ReadOK, Revs, Changed
  <1>3. QED
    BY <1>1, <1>2 DEF IInv, TypeOK, Begin, CommandOnce, VariantEditsKept, BornFirst, Revs, Live

-----------------------------------------------------------------------------
(* One lemma per writer. *)

\* A canonical revision belongs to no variant and points below itself.
LEMMA WriteCanonicalOK ==
  ASSUME IInv, NEW h \in Handlers, WriteCanonical(h)
  PROVE  IInv'
  <1> DEFINE r == req[h]
             n == Len(rev) + 1
             x == [parent |-> r.tip, cmd |-> r.cmd, based |-> r.base, by |-> r.variant]
  <1>1. CASE ~Unused(r.cmd)
    BY <1>1, EndOK DEF WriteCanonical
  <1>2. CASE Unused(r.cmd)
    <2>1. r \in Request /\ r.variant = None /\ r.phase = "write"
      BY DEF IInv, TypeOK, WriteCanonical
    <2>2. x \in Revision
      BY <2>1 DEF Request, Revision
    <2>3. rev' = Append(rev, x) /\ n <= MaxRevs /\ var' = var /\ overlaps' = overlaps
      BY <1>2, LenNat, SceneAssumption DEF WriteCanonical, AppendRevision, End, IInv
    <2>4. /\ rev' \in Seq(Revision) /\ Len(rev') = n /\ rev'[n] = x
          /\ \A i \in 1..Len(rev) : rev'[i] = rev[i]
      BY <2>2, <2>3, Appended DEF IInv, TypeOK
    <2>5. Revs' = Revs \cup {n} /\ n \notin Revs /\ Revs = 1..Len(rev)
      BY <2>4, LenNat DEF Revs, IInv
    <2>6. req' = [req EXCEPT ![h] = Idle]
      BY DEF WriteCanonical, End
    <2>7. TypeOK'
      <3> HIDE DEF n, x
      <3>1. x.parent = r.tip
        BY DEF x
      <3>2. r.tip < n
        BY <2>1, LenNat DEF IInv, ReadOK, Request, Number, n
      <3>3. \A q \in Revs : rev'[q].parent < q
        BY <2>4, <2>5 DEF IInv, TypeOK
      <3>4. \A q \in Revs' : rev'[q].parent < q
        BY <2>4, <2>5, <3>1, <3>2, <3>3
      <3>5. req' \in [Handlers -> Request]
        BY <2>6, IdleOK DEF IInv, TypeOK
      <3>6. \A v \in Live' : var'[v].base \in Revs' /\ var'[v].head \in Revs'
        BY <2>3, <2>5 DEF IInv, TypeOK, Live
      <3>7. QED
        BY <2>3, <2>4, <3>4, <3>5, <3>6 DEF IInv, TypeOK
    <2>8. CommandOnce'
      BY <1>2, <2>4, <2>5 DEF IInv, CommandOnce, Unused, Used
    <2>9. VariantEditsKept'
      BY <2>1, <2>3, <2>4, <2>5, SceneAssumption DEF IInv, VariantEditsKept, Live
    <2>10. BornFirst'
      BY <2>1, <2>3, <2>4, <2>5 DEF IInv, BornFirst
    <2>11. \A g \in Handlers : ReadOK(req[g])'
      BY <2>3, <2>4, <2>5, <2>6, LenNat DEF IInv, TypeOK, ReadOK, Idle, Changed, Request, Number
    <2>12. QED
      BY <2>7, <2>8, <2>9, <2>10, <2>11 DEF IInv
  <1>3. QED
    BY <1>1, <1>2

\* The head of a variant that is appended to becomes the parent of the new head.
LEMMA WriteAppendOK ==
  ASSUME IInv, NEW h \in Handlers, WriteAppend(h)
  PROVE  IInv'
  <1> DEFINE r == req[h]
             w == r.variant
             n == Len(rev) + 1
             x == [parent |-> r.tip, cmd |-> r.cmd, based |-> r.base, by |-> w]
  <1>1. CASE ~(Unused(r.cmd) /\ w \in Live /\ var[w].head = r.base)
    BY <1>1, EndOK DEF WriteAppend
  <1>2. CASE Unused(r.cmd) /\ w \in Live /\ var[w].head = r.base
    <2>1. r \in Request /\ r.phase = "write" /\ w \in Variants /\ r.tip = var[w].head
      BY <1>2, SceneAssumption DEF IInv, TypeOK, WriteAppend, ReadOK, Live
    <2>2. x \in Revision
      BY <2>1 DEF Request, Revision
    <2>3. /\ rev' = Append(rev, x) /\ n <= MaxRevs /\ overlaps' = overlaps
          /\ var' = [var EXCEPT ![w].head = n]
      BY <1>2, LenNat, SceneAssumption DEF WriteAppend, AppendRevision, End, IInv
    <2>4. /\ rev' \in Seq(Revision) /\ Len(rev') = n /\ rev'[n] = x
          /\ \A i \in 1..Len(rev) : rev'[i] = rev[i]
      BY <2>2, <2>3, Appended DEF IInv, TypeOK
    <2>5. Revs' = Revs \cup {n} /\ n \notin Revs /\ Revs = 1..Len(rev) /\ n \in Number
      BY <2>3, <2>4, LenNat, SceneAssumption DEF Revs, IInv, Number
    <2>6. req' = [req EXCEPT ![h] = Idle]
      BY DEF WriteAppend, End
    <2>7. /\ var' \in [Variants -> Variant] /\ Live' = Live
          /\ var'[w].head = n /\ var'[w].base = var[w].base
          /\ \A v \in Variants : /\ var'[v].status = var[v].status
                                 /\ v # w => var'[v] = var[v]
      BY <2>1, <2>3, <2>5 DEF IInv, TypeOK, Live, Variant
    <2>8. TypeOK'
      <3> HIDE DEF n, x
      <3>1. x.parent = r.tip
        BY DEF x
      <3>2. r.tip < n
        BY <1>2, <2>1, LenNat DEF IInv, TypeOK, Revs, n
      <3>3. \A q \in Revs : rev'[q].parent < q
        BY <2>4, <2>5 DEF IInv, TypeOK
      <3>4. \A q \in Revs' : rev'[q].parent < q
        BY <2>4, <2>5, <3>1, <3>2, <3>3
      <3>5. req' \in [Handlers -> Request]
        BY <2>6, IdleOK DEF IInv, TypeOK
      <3>6. \A v \in Live' : var'[v].base \in Revs' /\ var'[v].head \in Revs'
        BY <2>5, <2>7 DEF IInv, TypeOK, Live
      <3>7. QED
        BY <2>3, <2>4, <2>7, <3>4, <3>5, <3>6 DEF IInv, TypeOK
    <2>9. CommandOnce'
      BY <1>2, <2>4, <2>5 DEF IInv, CommandOnce, Unused, Used
    <2>10. VariantEditsKept'
      <3> SUFFICES ASSUME NEW v \in Live, NEW q \in Revs', rev'[q].by = v
                   PROVE  \/ var'[v].head = q
                          \/ \E p \in Revs' : rev'[p].by = v /\ rev'[p].parent = q
        BY <2>7 DEF VariantEditsKept
      <3>1. CASE q = n
        BY <3>1, <2>4, <2>7
      <3>2. CASE q \in Revs /\ var[v].head = q
        BY <3>2, <2>1, <2>4, <2>5, <2>7 DEF Live
      <3>3. CASE q \in Revs /\ var[v].head # q
        BY <3>3, <2>4, <2>5 DEF IInv, VariantEditsKept
      <3>4. QED
        BY <3>1, <3>2, <3>3, <2>5
    <2>11. BornFirst'
      <3>1. \A q \in Revs : rev[q].by \in Variants \cup {None}
        BY BranchOf DEF IInv
      <3>2. rev'[n].by = w /\ var'[w].status # "absent"
        BY <1>2, <2>1, <2>4, <2>7 DEF Live, Stored
      <3>3. QED
        BY <2>4, <2>5, <2>7, <3>1, <3>2 DEF IInv, BornFirst
    <2>12. \A g \in Handlers : ReadOK(req[g])'
      <3>1. \A v \in Variants : var[v].status # "absent" => var'[v].status # "absent"
        BY <2>1, <2>7 DEF Live, Stored
      <3>2. QED
        BY <2>4, <2>5, <2>6, <3>1, LenNat
        DEF IInv, TypeOK, ReadOK, Idle, Changed, Request, Number
    <2>13. QED
      BY <2>8, <2>9, <2>10, <2>11, <2>12 DEF IInv
  <1>3. QED
    BY <1>1, <1>2

\* latest_revision reads a revision that exists.
LEMMA ReadTipOK ==
  ASSUME IInv, NEW h \in Handlers, ReadTip(h)
  PROVE  IInv'
  <1> DEFINE r == req[h]
  <1>1. PICK tip \in 0..Len(rev) :
          /\ Newest(tip, r.owned)
          /\ req' = [req EXCEPT ![h] =
               IF ~Accepts(r.op, r.base, tip) THEN Idle
               ELSE [r EXCEPT !.phase = IF r.op = "seed" THEN "insert" ELSE "write",
                              !.base = IF r.op = "seed" THEN tip ELSE r.base,
                              !.op = "none", !.owned = {}, !.tip = tip]]
    BY DEF ReadTip
  <1>2. r.phase = "walk" /\ rev' = rev /\ var' = var /\ overlaps' = overlaps
    BY DEF ReadTip
  <1>3. CASE ~Accepts(r.op, r.base, tip)
    BY <1>1, <1>2, <1>3, EndOK DEF End
  <1>4. CASE Accepts(r.op, r.base, tip)
    <2> DEFINE s == [r EXCEPT !.phase = IF r.op = "seed" THEN "insert" ELSE "write",
                              !.base = IF r.op = "seed" THEN tip ELSE r.base,
                              !.op = "none", !.owned = {}, !.tip = tip]
    <2>1. r \in Request /\ tip \in Number /\ r.variant = None /\ r.base <= Len(rev)
      BY <1>2, LenNat, SceneAssumption DEF IInv, TypeOK, ReadOK, Number
    <2>2. s \in Request
      BY <2>1 DEF Request, Ops
    <2>3. ReadOK(s)
      <3>1. s.phase = "insert" => s.base \in Revs /\ s.tip \in Revs
        <4>1. r.op = "seed" => tip # 0
          BY <1>4 DEF Accepts
        <4>2. r.op = "seed" => tip \in Revs
          BY <4>1, LenNat DEF Revs, IInv
        <4>3. /\ s.phase = "insert" => r.op = "seed"
              /\ r.op = "seed" => s.base = tip /\ s.tip = tip
          BY <2>1 DEF Request
        <4>4. QED
          BY <4>2, <4>3
      <3>2. /\ s.phase = IF r.op = "seed" THEN "insert" ELSE "write"
            /\ s.variant = None /\ s.tip = tip
            /\ s.phase = "write" => s.base = r.base
        BY <2>1 DEF Request
      <3>3. tip <= Len(rev)
        BY <1>2, LenNat DEF IInv
      <3>4. QED
        BY <2>1, <3>1, <3>2, <3>3 DEF ReadOK
    <2>4. req' = [req EXCEPT ![h] = s]
      BY <1>1, <1>4
    <2>5. \A g \in Handlers : ReadOK(req[g])'
      BY <1>2, <2>3, <2>4 DEF IInv, TypeOK, ReadOK, Revs, Changed
    <2>6. QED
      BY <1>2, <2>2, <2>4, <2>5
      DEF IInv, TypeOK, CommandOnce, VariantEditsKept, BornFirst, Revs, Live
  <1>5. QED
    BY <1>3, <1>4

\* A new variant has no revision of its own yet.
LEMMA InsertVariantOK ==
  ASSUME IInv, NEW h \in Handlers, InsertVariant(h)
  PROVE  IInv'
  <1> DEFINE r == req[h]
  <1>1. PICK w \in Variants :
          /\ var[w].status = "absent"
          /\ var' = [var EXCEPT ![w] = [status |-> "draft", base |-> r.base, head |-> r.tip]]
    BY DEF InsertVariant
  <1>2. /\ r \in Request /\ r.base \in Revs /\ r.tip \in Revs
        /\ rev' = rev /\ overlaps' = overlaps /\ req' = [req EXCEPT ![h] = Idle]
    BY DEF IInv, TypeOK, InsertVariant, End, ReadOK
  <1>3. /\ var' \in [Variants -> Variant] /\ Live' = Live \cup {w} /\ w \notin Live
        /\ var'[w] = [status |-> "draft", base |-> r.base, head |-> r.tip]
        /\ \A v \in Variants : v # w => var'[v] = var[v]
    BY <1>1, <1>2 DEF IInv, TypeOK, Live, Variant, Request, Status, Stored
  <1>4. req' \in [Handlers -> Request]
    BY <1>2, IdleOK DEF IInv, TypeOK
  <1>5. TypeOK'
    BY <1>2, <1>3, <1>4 DEF IInv, TypeOK, Revs, Live
  <1>6. \A q \in Revs : rev[q].by # w
    BY <1>1, SceneAssumption DEF IInv, BornFirst
  <1>7. VariantEditsKept'
    BY <1>2, <1>3, <1>6 DEF IInv, VariantEditsKept, Revs, Live
  <1>8. BornFirst'
    <2>1. \A q \in Revs : rev[q].by \in Variants \cup {None}
      BY BranchOf DEF IInv
    <2>2. \A v \in Variants : v # w => var'[v].status = var[v].status
      BY <1>3
    <2>3. QED
      BY <1>2, <1>6, <2>1, <2>2 DEF IInv, BornFirst, Revs
  <1>9. \A g \in Handlers : ReadOK(req[g])'
    <2>1. \A v \in Variants : var[v].status # "absent" => var'[v].status # "absent"
      BY <1>3
    <2>2. QED
      BY <1>2, <2>1 DEF IInv, TypeOK, ReadOK, Idle, Revs, Changed
  <1>10. QED
    BY <1>2, <1>5, <1>7, <1>8, <1>9 DEF IInv, CommandOnce, Revs

\* A status is only written to rows that exist.
LEMMA WriteStatusOK ==
  ASSUME IInv, NEW h \in Handlers, WriteStatus(h)
  PROVE  IInv'
  <1> DEFINE r == req[h]
  <1>1. CASE ~(Changed(r) \subseteq Live)
    BY <1>1, EndOK DEF WriteStatus, End
  <1>2. CASE Changed(r) \subseteq Live
    <2>1. /\ r \in Request /\ \A v \in Changed(r) : r.status[v] \in Stored
          /\ rev' = rev /\ overlaps' = overlaps /\ req' = [req EXCEPT ![h] = Idle]
      BY DEF IInv, TypeOK, WriteStatus, End, ReadOK
    <2>2. var' = [v \in Variants |->
                   IF v \in Changed(r) THEN [var[v] EXCEPT !.status = r.status[v]] ELSE var[v]]
      BY <1>2 DEF WriteStatus
    <2>3. /\ var' \in [Variants -> Variant] /\ Live' = Live
          /\ \A v \in Variants : /\ var'[v].base = var[v].base /\ var'[v].head = var[v].head
                                 /\ var[v].status # "absent" => var'[v].status # "absent"
      BY <1>2, <2>1, <2>2 DEF IInv, TypeOK, Live, Variant, Status, Stored
    <2>4. req' \in [Handlers -> Request]
      BY <2>1, IdleOK DEF IInv, TypeOK
    <2>5. \A g \in Handlers : ReadOK(req[g])'
      BY <2>1, <2>3 DEF IInv, TypeOK, ReadOK, Idle, Revs, Changed
    <2>6. BornFirst'
      BY <2>1, <2>3, BranchOf DEF IInv, BornFirst, Revs
    <2>7. Revs' = Revs
      BY <2>1 DEF Revs
    <2>8. TypeOK'
      BY <2>1, <2>3, <2>4, <2>7 DEF IInv, TypeOK, Live
    <2>9. CommandOnce'
      BY <2>1, <2>7 DEF IInv, CommandOnce
    <2>10. VariantEditsKept'
      BY <2>1, <2>3, <2>7 DEF IInv, VariantEditsKept, Live
    <2>11. QED
      BY <2>5, <2>6, <2>8, <2>9, <2>10 DEF IInv
  <1>3. QED
    BY <1>1, <1>2

\* A deleted variant is not an absent one: its id is not drawn again.
LEMMA WriteDeleteOK ==
  ASSUME IInv, NEW h \in Handlers, WriteDelete(h)
  PROVE  IInv'
  <1> DEFINE w == req[h].variant
  <1>1. /\ w \in Variants /\ var' = [var EXCEPT ![w].status = "deleted"]
        /\ rev' = rev /\ overlaps' = overlaps /\ req' = [req EXCEPT ![h] = Idle]
    BY DEF IInv, TypeOK, WriteDelete, End, ReadOK
  <1>2. /\ var' \in [Variants -> Variant] /\ Live' \subseteq Live
        /\ \A v \in Variants : /\ var'[v].base = var[v].base /\ var'[v].head = var[v].head
                               /\ var[v].status # "absent" => var'[v].status # "absent"
    BY <1>1 DEF IInv, TypeOK, Live, Variant, Status, Stored
  <1>3. req' \in [Handlers -> Request]
    BY <1>1, IdleOK DEF IInv, TypeOK
  <1>4. \A g \in Handlers : ReadOK(req[g])'
    BY <1>1 DEF IInv, TypeOK, ReadOK, Idle, Revs, Changed
  <1>5. BornFirst'
    BY <1>1, <1>2, BranchOf DEF IInv, BornFirst, Revs
  <1>6. Revs' = Revs
    BY <1>1 DEF Revs
  <1>7. TypeOK'
    BY <1>1, <1>2, <1>3, <1>6 DEF IInv, TypeOK, Live
  <1>8. CommandOnce'
    BY <1>1, <1>6 DEF IInv, CommandOnce
  <1>9. VariantEditsKept'
    BY <1>1, <1>2, <1>6 DEF IInv, VariantEditsKept, Live
  <1>10. QED
    BY <1>4, <1>5, <1>7, <1>8, <1>9 DEF IInv

-----------------------------------------------------------------------------
(* The handlers that only read. *)

\* The first half of latest_revision notes revisions that exist.
LEMMA WalkOK ==
  ASSUME IInv, NEW h \in Handlers, NEW op \in Ops \ {"none"}, NEW base \in 0..Len(rev),
         NEW cmd \in Commands \cup {None}, Walk(h, op, base, cmd)
  PROVE  IInv'
  <1> DEFINE r == [Idle EXCEPT !.phase = "walk", !.op = op, !.base = base, !.cmd = cmd,
                               !.owned = Owned]
  <1>1. Owned \subseteq 1..MaxRevs /\ base \in Number
    BY LenNat, SceneAssumption DEF Owned, Revs, Number, IInv, TypeOK
  <1>2. r \in Request
    BY <1>1, IdleOK DEF Request
  <1>3. r.phase = "walk" /\ r.base = base /\ r.variant = None
    BY DEF Idle
  <1>4. base <= Len(rev)
    BY LenNat DEF IInv
  <1>5. ReadOK(r)
    BY <1>3, <1>4 DEF ReadOK
  <1>6. QED
    BY <1>2, <1>5, BeginOK DEF Walk

\* An append begins with the head it expects, which exists.
LEMMA BeginAppendOK ==
  ASSUME IInv, NEW h \in Handlers, NEW v \in Variants, NEW base \in Revs,
         NEW cmd \in Commands \cup {None}, BeginAppend(h, v, base, cmd)
  PROVE  IInv'
  <1> DEFINE r == [Idle EXCEPT !.phase = "write", !.variant = v, !.cmd = cmd, !.base = base,
                               !.tip = base]
  <1>1. base \in Number /\ base <= Len(rev)
    BY LenNat, SceneAssumption DEF Revs, Number, IInv, TypeOK
  <1>2. r \in Request /\ ReadOK(r)
    BY <1>1, IdleOK DEF Request, Idle, ReadOK
  <1>3. QED
    BY <1>2, BeginOK DEF BeginAppend

\* a lineage holds revisions that exist, by the guard on `from`
LEMMA ForkOK ==
  ASSUME IInv, NEW h \in Handlers, NEW v \in Variants, NEW from \in 0..Len(rev),
         Fork(h, v, from)
  PROVE  IInv'
  <1> DEFINE b == IF from = 0 THEN var[v].base ELSE from
             t == IF from = 0 THEN var[v].head ELSE from
             r == [Idle EXCEPT !.phase = "insert", !.base = b, !.tip = t]
  <1>1. b \in Revs /\ t \in Revs
    BY LenNat DEF Fork, IInv, TypeOK, Live, Revs
  <1>2. b \in Number /\ t \in Number
    BY <1>1, LenNat, SceneAssumption DEF Revs, Number, IInv, TypeOK
  <1>3. r \in Request /\ ReadOK(r)
    BY <1>1, <1>2, IdleOK DEF Request, Idle, ReadOK
  <1>4. QED
    BY <1>3, BeginOK DEF Fork

\* A request that changes statuses changes none to a status no row has.
LEMMA SetStatusOK ==
  ASSUME IInv, NEW h \in Handlers, NEW status \in [Variants -> Status], SetStatus(h, status),
         \A v \in Variants : status[v] # var[v].status => status[v] \in Stored
  PROVE  IInv'
  <1> DEFINE r == [Idle EXCEPT !.phase = "status", !.seen = StatusNow, !.status = status]
  <1>1. StatusNow \in [Variants -> Status] /\ \A v \in Variants : StatusNow[v] = var[v].status
    BY DEF StatusNow, IInv, TypeOK, Variant
  <1>2. r \in Request /\ ReadOK(r)
    BY <1>1, IdleOK DEF Request, Idle, ReadOK, Changed
  <1>3. QED
    BY <1>2, BeginOK DEF SetStatus

\* approve_variant writes shortlisted and approved only.
LEMMA ApproveOK ==
  ASSUME IInv, NEW h \in Handlers, NEW v \in Variants, Approve(h, v)
  PROVE  IInv'
  <1> DEFINE s == [u \in Variants |->
                     IF u = v THEN "approved"
                     ELSE IF var[u].status = "approved" THEN "shortlisted" ELSE var[u].status]
  <1>1. s \in [Variants -> Status] /\ \A u \in Variants : s[u] # var[u].status => s[u] \in Stored
    BY DEF IInv, TypeOK, Variant, Status, Stored
  <1>2. QED
    BY <1>1, SetStatusOK DEF Approve

\* patch_variant writes the status of one variant.
LEMMA PatchOK ==
  ASSUME IInv, NEW h \in Handlers, NEW v \in Variants, NEW s \in Stored, Patch(h, v, s)
  PROVE  IInv'
  <1> DEFINE t == [StatusNow EXCEPT ![v] = s]
  <1>1. t \in [Variants -> Status] /\ \A u \in Variants : t[u] # var[u].status => t[u] \in Stored
    BY DEF IInv, TypeOK, Variant, Status, StatusNow
  <1>2. QED
    BY <1>1, SetStatusOK DEF Patch

\* delete_variant names a variant that exists.
LEMMA BeginDeleteOK ==
  ASSUME IInv, NEW h \in Handlers, NEW v \in Variants, BeginDelete(h, v)
  PROVE  IInv'
  <1>1. [Idle EXCEPT !.phase = "delete", !.variant = v] \in Request
    BY IdleOK DEF Request, Idle
  <1>2. ReadOK([Idle EXCEPT !.phase = "delete", !.variant = v])
    BY DEF Idle, ReadOK, BeginDelete, Live, Stored
  <1>3. QED
    BY <1>1, <1>2, BeginOK DEF BeginDelete

-----------------------------------------------------------------------------
\* The strengthened invariant holds of an empty project ...
LEMMA Start == Init => IInv
  <1> SUFFICES ASSUME Init PROVE IInv
    OBVIOUS
  <1>1. Len(rev) = 0 /\ rev \in Seq(Revision) /\ Revs = {}
    BY EmptySeq DEF Init, Revs
  <1>2. Live = {} /\ var \in [Variants -> Variant]
    BY SceneAssumption DEF Init, Live, Stored, Variant, Status, Number
  <1>3. req \in [Handlers -> Request]
    BY IdleOK DEF Init
  <1>4. \A h \in Handlers : ReadOK(req[h])
    BY DEF Init, ReadOK, Idle
  <1>5. QED
    BY <1>1, <1>2, <1>3, <1>4, SceneAssumption
    DEF Init, IInv, TypeOK, CommandOnce, VariantEditsKept, BornFirst

\* ... and every action keeps it.
LEMMA Step == IInv /\ [Next]_vars => IInv'
  <1> SUFFICES ASSUME IInv, [Next]_vars PROVE IInv'
    OBVIOUS
  <1>1. CASE UNCHANGED vars
    BY <1>1 DEF vars, IInv, TypeOK, CommandOnce, VariantEditsKept, BornFirst, ReadOK, Revs, Live,
                Changed
  <1>2. ASSUME NEW h \in Handlers, Canonical(h) PROVE IInv'
    BY <1>2, WalkOK, ReadTipOK, WriteCanonicalOK DEF Canonical
  <1>3. ASSUME NEW h \in Handlers, Branch(h) PROVE IInv'
    BY <1>3, BeginAppendOK, WriteAppendOK DEF Branch
  <1>4. ASSUME NEW h \in Handlers, Lifecycle(h) PROVE IInv'
    BY <1>4, ForkOK, ApproveOK, BeginDeleteOK, PatchOK, InsertVariantOK, WriteStatusOK, WriteDeleteOK
    DEF Lifecycle
  <1>5. ASSUME NEW h \in Handlers, Abort(h) PROVE IInv'
    BY <1>5, EndOK DEF Abort
  <1>6. QED
    BY <1>1, <1>2, <1>3, <1>4, <1>5 DEF Next

\* What the requests in flight have read stays true until they write (IInv).
THEOREM Inductive == Spec => []IInv
  BY Start, Step, PTL DEF Spec

\* Variants point at revisions that exist and parents come before their children,
\* for any number of requests, variants and revisions.
THEOREM TypeCorrect == Spec => []TypeOK
  BY Inductive, PTL DEF IInv

\* One command id takes effect once, on the canonical history or on one variant.
THEOREM CommandsOnce == Spec => []CommandOnce
  BY Inductive, PTL DEF IInv

\* The expected-head guard of append_variant_revision loses no edit of a variant,
\* whatever other requests do meanwhile.
THEOREM NoVariantEditLost == Spec => []VariantEditsKept
  BY Inductive, PTL DEF IInv

-----------------------------------------------------------------------------
(* Walking up the parents.  Segment walks from a head to a base by a       *)
(* recursive function on the revisions that exist; Span is its value as a  *)
(* function of the revisions, so that it can be compared before and after  *)
(* an append.  Parents come first, so the walk is well defined: a least    *)
(* revision at which it was not, or at which two walks differ, cannot be.  *)

\* f collects, from every revision up to n, the revisions on the way up to b
Walks(f, s, b, n) ==
  /\ f = [r \in 0..n |-> f[r]]
  /\ \A r \in 0..n : f[r] = IF r \in {0, b} THEN {} ELSE {r} \cup f[s[r].parent]

\* the parent of each of the first n revisions comes before it
Rooted(s, n) == \A r \in 1..n : s[r].parent \in 0..(r - 1)

Span(s, b, t) == (CHOOSE f : Walks(f, s, b, Len(s)))[t]

\* A nonempty set of natural numbers has a least element.
LEMMA LeastOf ==
  ASSUME NEW T \in SUBSET Nat, T # {}
  PROVE  \E x \in T : \A y \in T : x <= y
  <1> DEFINE Less == {p \in Nat \X Nat : p[1] < p[2]}
  <1>1. IsWellFoundedOn(Less, Nat)
    BY NatLessThanWellFounded DEF OpToRel
  <1>2. PICK x \in T : \A y \in T : ~(<<y, x>> \in Less)
    <2> HIDE DEF Less
    <2>1. QED
      BY <1>1, WFMin
  <1>3. \A y \in T : ~(y < x)
    BY <1>2
  <1> HIDE DEF Less
  <1>4. QED
    BY <1>3

\* The walk exists for as many revisions as there are.
LEMMA WalkExists ==
  ASSUME NEW n \in Nat, NEW s, NEW b, Rooted(s, n)
  PROVE  \E f : Walks(f, s, b, n)
  <1> DEFINE Without == {m \in Nat : m <= n /\ ~(\E f : Walks(f, s, b, m))}
  <1>1. SUFFICES ASSUME Without # {} PROVE FALSE
    OBVIOUS
  <1>2. PICK m \in Without : \A i \in Without : m <= i
    BY <1>1, LeastOf
  <1>3. m \in Nat /\ m <= n /\ ~(\E f : Walks(f, s, b, m))
        /\ \A i \in Nat : i < m => \E f : Walks(f, s, b, i)
    BY <1>2
  <1>4. CASE m = 0
    <2>1. Walks([i \in 0..0 |-> {}], s, b, 0)
      BY DEF Walks
    <2>2. QED
      BY <1>3, <1>4, <2>1
  <1>5. CASE m # 0
    <2>1. m - 1 \in Nat /\ m - 1 < m
      BY <1>3, <1>5
    <2>2. PICK g : Walks(g, s, b, m - 1)
      BY <1>3, <2>1
    <2> DEFINE top == IF m = b THEN {} ELSE {m} \cup g[s[m].parent]
               f == [i \in 0..m |-> IF i = m THEN top ELSE g[i]]
    <2>3. Walks(f, s, b, m)
      <3>1. ASSUME NEW i \in 0..m
            PROVE  f[i] = IF i \in {0, b} THEN {} ELSE {i} \cup f[s[i].parent]
        <4>1. CASE i = m
          <5>1. s[m].parent \in 0..(m - 1)
            BY <1>3, <1>5 DEF Rooted
          <5>2. f[s[m].parent] = g[s[m].parent]
            BY <1>3, <5>1
          <5>3. QED
            BY <1>5, <4>1, <5>2
        <4>2. CASE i = 0
          <5>1. g[0] = {}
            BY <2>1, <2>2 DEF Walks
          <5>2. QED
            BY <1>3, <1>5, <4>2, <5>1
        <4>3. CASE i # m /\ i # 0
          <5>1. i \in 1..(m - 1) /\ i \in 0..(m - 1) /\ i \in 1..n
            BY <1>3, <4>3
          <5>2. s[i].parent \in 0..(i - 1)
            BY <5>1 DEF Rooted
          <5>3. s[i].parent \in 0..m /\ s[i].parent # m
            BY <1>3, <5>1, <5>2
          <5>4. f[i] = g[i] /\ f[s[i].parent] = g[s[i].parent]
            BY <4>3, <5>3
          <5>5. QED
            BY <2>2, <5>1, <5>4 DEF Walks
        <4>4. QED
          BY <4>1, <4>2, <4>3
      <3>2. f = [i \in 0..m |-> f[i]]
        OBVIOUS
      <3> HIDE DEF f
      <3>3. QED
        BY <3>1, <3>2 DEF Walks
    <2>4. QED
      BY <1>3, <2>3
  <1>6. QED
    BY <1>4, <1>5

\* Two walks agree as far as their revisions do, and collect revisions.
LEMMA WalksAgree ==
  ASSUME NEW m \in Nat, NEW n \in Nat, NEW s, NEW t, NEW b, NEW f, NEW g,
         Walks(f, s, b, m), Walks(g, t, b, n), m <= n, Rooted(s, m),
         \A r \in 1..m : t[r].parent = s[r].parent
  PROVE  \A r \in 0..m : f[r] = g[r] /\ f[r] \subseteq 1..r
  <1> DEFINE Apart == {r \in Nat : r <= m /\ ~(f[r] = g[r] /\ f[r] \subseteq 1..r)}
  <1>1. SUFFICES ASSUME Apart # {} PROVE FALSE
    OBVIOUS
  <1>2. PICK k \in Apart : \A i \in Apart : k <= i
    BY <1>1, LeastOf
  <1>3. k \in Nat /\ k <= m /\ ~(f[k] = g[k] /\ f[k] \subseteq 1..k)
    BY <1>2
  <1>4. k \notin {0, b}
    <2>1. k \in 0..m /\ k \in 0..n
      BY <1>3
    <2>2. QED
      BY <1>3, <2>1 DEF Walks
  <1>5. s[k].parent \in 0..(k - 1) /\ t[k].parent = s[k].parent
    BY <1>3, <1>4 DEF Rooted
  <1> DEFINE q == s[k].parent
  <1>6. q \in Nat /\ q < k /\ q \notin Apart
    <2>1. q \in Nat /\ q < k
      BY <1>3, <1>5
    <2> HIDE DEF Apart
    <2>2. QED
      BY <1>2, <1>3, <2>1
  <1>7. f[q] = g[q] /\ f[q] \subseteq 1..q
    BY <1>3, <1>6
  <1>8. f[k] = {k} \cup f[q] /\ g[k] = {k} \cup g[q]
    <2>1. k \in 0..m /\ k \in 0..n
      BY <1>3
    <2>2. QED
      BY <1>4, <1>5, <2>1 DEF Walks
  <1>9. f[k] \subseteq 1..k
    <2> HIDE DEF q, Apart
    <2>1. QED
      BY <1>3, <1>4, <1>6, <1>7, <1>8
  <1>10. QED
    BY <1>3, <1>7, <1>8, <1>9

\* What a span is, one step up.
LEMMA SpanStep ==
  ASSUME NEW s, NEW b, Len(s) \in Nat, Rooted(s, Len(s)), NEW t \in 0..Len(s)
  PROVE  /\ Span(s, b, t) = IF t \in {0, b} THEN {} ELSE {t} \cup Span(s, b, s[t].parent)
         /\ Span(s, b, t) \subseteq 1..t
  <1> DEFINE f == CHOOSE f : Walks(f, s, b, Len(s))
  <1>1. Walks(f, s, b, Len(s))
    BY WalkExists
  <1>2. \A r : Span(s, b, r) = f[r]
    BY DEF Span
  <1> HIDE DEF f
  <1>3. \A r \in 0..Len(s) : f[r] = f[r] /\ f[r] \subseteq 1..r
    <2>1. Len(s) <= Len(s) /\ \A r \in 1..Len(s) : s[r].parent = s[r].parent
      OBVIOUS
    <2>2. QED
      BY <1>1, <2>1, WalksAgree
  <1>4. QED
    BY <1>1, <1>2, <1>3 DEF Walks

\* An append leaves the spans of older revisions alone.
LEMMA SpanKept ==
  ASSUME NEW s, NEW t, NEW b, Len(s) \in Nat, Len(t) \in Nat, Len(s) <= Len(t),
         Rooted(s, Len(s)), Rooted(t, Len(t)), \A r \in 1..Len(s) : t[r] = s[r],
         NEW r \in 0..Len(s)
  PROVE  Span(t, b, r) = Span(s, b, r)
  <1> DEFINE f == CHOOSE f : Walks(f, s, b, Len(s))
             g == CHOOSE g : Walks(g, t, b, Len(t))
  <1>1. Walks(f, s, b, Len(s)) /\ Walks(g, t, b, Len(t))
    BY WalkExists
  <1>2. Span(s, b, r) = f[r] /\ Span(t, b, r) = g[r]
    BY DEF Span
  <1> HIDE DEF f, g
  <1>3. QED
    BY <1>1, <1>2, WalksAgree

\* Parents that exist and come first make a walk.
LEMMA ParentsRooted ==
  ASSUME NEW s \in Seq(Revision), \A r \in 1..Len(s) : s[r].parent < r
  PROVE  Len(s) \in Nat /\ Rooted(s, Len(s))
  <1>1. Len(s) \in Nat /\ \A r \in 1..Len(s) : s[r] \in Revision
    BY LenProperties, ElementOfSeq
  <1>2. ASSUME NEW r \in 1..Len(s) PROVE s[r].parent \in 0..(r - 1)
    <2>1. s[r].parent \in 0..MaxRevs /\ s[r].parent < r /\ r \in Nat
      BY <1>1 DEF Revision, Number
    <2>2. QED
      BY <2>1, SceneAssumption
  <1>3. QED
    BY <1>1, <1>2 DEF Rooted

\* The parents of the project's revisions.
LEMMA RevsRooted == ASSUME TypeOK PROVE Len(rev) \in Nat /\ Rooted(rev, Len(rev))
  BY ParentsRooted DEF TypeOK, Revs

\* The walk of the model is a span.
LEMMA WalkedIsSpan ==
  TypeOK => \A b, t : t \in 0..Len(rev) => Walked(b, t) = Span(rev, b, t)
  <1> SUFFICES ASSUME TypeOK, NEW b, NEW t \in 0..Len(rev)
               PROVE  Walked(b, t) = Span(rev, b, t)
    OBVIOUS
  <1> DEFINE n == Len(rev)
             Up(f) == f = [r \in 0..n |-> IF r \in {0, b} THEN {} ELSE {r} \cup f[rev[r].parent]]
             f == CHOOSE f : Up(f)
             g == CHOOSE g : Walks(g, rev, b, n)
  <1>1. Walked(b, t) = f[t]
    BY DEF Walked
  <1>2. Walks(g, rev, b, n)
    BY RevsRooted, WalkExists
  <1>3. Up(g)
    <2> HIDE DEF g
    <2>1. QED
      BY <1>2 DEF Walks
  <1>4. Up(f)
    <2> HIDE DEF g, Up
    <2>1. QED
      BY <1>3
  <1>5. Walks(f, rev, b, n)
    <2> HIDE DEF f
    <2>1. \A r \in 0..n : f[r] = IF r \in {0, b} THEN {} ELSE {r} \cup f[rev[r].parent]
      BY <1>4
    <2>2. f = [r \in 0..n |-> f[r]]
      BY <1>4
    <2>3. QED
      BY <2>1, <2>2 DEF Walks
  <1>6. Span(rev, b, t) = g[t]
    BY DEF Span
  <1> HIDE DEF f, g
  <1>7. QED
    <2>1. n \in Nat /\ Rooted(rev, n) /\ n <= n /\ \A r \in 1..n : rev[r].parent = rev[r].parent
      BY RevsRooted
    <2>2. f[t] = g[t]
      BY <1>2, <1>5, <2>1, WalksAgree
    <2>3. QED
      BY <1>1, <1>6, <2>2

\* The segment of a variant is a span.
LEMMA SegmentIsSpan ==
  ASSUME TypeOK, NEW v \in Live
  PROVE  Segment(v) = Span(rev, var[v].base, var[v].head)
  <1>1. var[v].head \in 0..Len(rev)
    BY LenNat DEF TypeOK, Revs
  <1>2. QED
    BY <1>1, WalkedIsSpan DEF Segment

-----------------------------------------------------------------------------
(* Branches.  The span of a variant holds revisions of variants only, and  *)
(* all that were appended to it; so does what a fork in flight will start  *)
(* from.                                                                   *)

Branches == {r \in Revs : rev[r].by # None}

SpanOf(v) == Span(rev, var[v].base, var[v].head)

BInv ==
  /\ \A v \in Live : SpanOf(v) \subseteq Branches /\ \A r \in Revs : rev[r].by = v => r \in SpanOf(v)
  /\ \A h \in Handlers : req[h].phase = "insert" => Span(rev, req[h].base, req[h].tip) \subseteq Branches

\* Where no revision is added and no variant moves, branches stay as they are.
LEMMA BranchesStay ==
  ASSUME IInv, BInv, UNCHANGED rev, Live' \subseteq Live,
         \A v \in Variants : var'[v].base = var[v].base /\ var'[v].head = var[v].head,
         \A h \in Handlers : req'[h].phase = "insert" =>
                               Span(rev, req'[h].base, req'[h].tip) \subseteq Branches
  PROVE  BInv'
  <1>1. Revs' = Revs /\ Branches' = Branches
    BY DEF Revs, Branches
  <1>2. \A v \in Live' : v \in Live /\ SpanOf(v)' = SpanOf(v)
    BY DEF SpanOf, Live
  <1>3. \A h \in Handlers : req'[h].phase = "insert" =>
                              Span(rev', req'[h].base, req'[h].tip) \subseteq Branches'
    BY <1>1
  <1>4. QED
    BY <1>1, <1>2, <1>3 DEF BInv

\* A request begins or ends without a write.
LEMMA RequestStays ==
  ASSUME IInv, BInv, UNCHANGED <<rev, var>>, NEW h \in Handlers, NEW r,
         req' = [req EXCEPT ![h] = r],
         r.phase = "insert" => Span(rev, r.base, r.tip) \subseteq Branches
  PROVE  BInv'
  <1>1. Live' = Live
    BY DEF Live
  <1>2. \A g \in Handlers : req'[g] = IF g = h THEN r ELSE req[g]
    BY DEF IInv, TypeOK
  <1>3. \A g \in Handlers : req'[g].phase = "insert" =>
                              Span(rev, req'[g].base, req'[g].tip) \subseteq Branches
    BY <1>2 DEF BInv
  <1>4. QED
    BY <1>1, <1>3, BranchesStay

\* What an append adds to the branches.
LEMMA BranchesGrow ==
  ASSUME IInv, IInv', BInv, NEW x \in Revision, rev' = Append(rev, x)
  PROVE  LET n == Len(rev) + 1
         IN /\ Revs' = Revs \cup {n} /\ n \notin Revs /\ rev'[n] = x
            /\ \A r \in Revs : rev'[r] = rev[r]
            /\ Branches' = IF x.by = None THEN Branches ELSE Branches \cup {n}
            /\ \A b, t : t \in 0..Len(rev) => Span(rev', b, t) = Span(rev, b, t)
            /\ \A b : Span(rev', b, n) =
                        IF n = b THEN {} ELSE {n} \cup Span(rev', b, x.parent)
  <1> DEFINE n == Len(rev) + 1
  <1>1. rev \in Seq(Revision) /\ Len(rev) \in Nat /\ Rooted(rev, Len(rev))
    BY RevsRooted DEF IInv, TypeOK
  <1>2. /\ rev' \in Seq(Revision) /\ Len(rev') = n /\ rev'[n] = x
        /\ \A i \in 1..Len(rev) : rev'[i] = rev[i]
    BY <1>1, Appended
  <1>3. Len(rev') \in Nat /\ Rooted(rev', Len(rev'))
    BY <1>2, ParentsRooted DEF IInv, TypeOK, Revs
  <1>4. Revs' = Revs \cup {n} /\ n \notin Revs
    BY <1>1, <1>2 DEF Revs
  <1>5. \A r \in Revs : rev'[r] = rev[r]
    BY <1>2 DEF Revs
  <1>6. Branches' = IF x.by = None THEN Branches ELSE Branches \cup {n}
    BY <1>2, <1>4, <1>5 DEF Branches
  <1>7. ASSUME NEW b, NEW t \in 0..Len(rev) PROVE Span(rev', b, t) = Span(rev, b, t)
    <2>1. Len(rev) <= Len(rev')
      BY <1>1, <1>2
    <2>2. QED
      BY <1>1, <1>2, <1>3, <2>1, SpanKept
  <1>8. ASSUME NEW b
        PROVE Span(rev', b, n) = IF n = b THEN {} ELSE {n} \cup Span(rev', b, x.parent)
    <2>1. n \in 0..Len(rev') /\ n # 0 /\ rev'[n].parent = x.parent
      BY <1>1, <1>2
    <2> HIDE DEF n
    <2> DEFINE s == rev'
    <2>s. Len(s) \in Nat /\ Rooted(s, Len(s)) /\ n \in 0..Len(s)
      BY <1>3, <2>1
    <2> HIDE DEF s
    <2>t. Span(s, b, n) = IF n \in {0, b} THEN {} ELSE {n} \cup Span(s, b, s[n].parent)
      BY <2>s, SpanStep
    <2>2. Span(rev', b, n) = IF n \in {0, b} THEN {} ELSE {n} \cup Span(rev', b, rev'[n].parent)
      BY <2>t DEF s
    <2>3. QED
      BY <2>1, <2>2
  <1>9. QED
    BY <1>2, <1>4, <1>5, <1>6, <1>7, <1>8

\* The heads and bases of variants, and what a fork starts from, exist.
LEMMA PointsExist ==
  ASSUME IInv
  PROVE  /\ \A v \in Live : var[v].base \in Revs /\ var[v].head \in 0..Len(rev)
         /\ \A h \in Handlers : req[h].phase = "insert" => req[h].tip \in 0..Len(rev)
  BY LenNat DEF IInv, TypeOK, ReadOK, Revs

\* A canonical revision is on no branch.
LEMMA CanonicalBranches ==
  ASSUME IInv, IInv', BInv, NEW h \in Handlers, WriteCanonical(h)
  PROVE  BInv'
  <1> DEFINE r == req[h]
             x == [parent |-> r.tip, cmd |-> r.cmd, based |-> r.base, by |-> r.variant]
  <1>1. CASE ~Unused(r.cmd)
    BY <1>1, RequestStays DEF WriteCanonical, End, Idle
  <1>2. CASE Unused(r.cmd)
    <2>1. r \in Request /\ r.variant = None
      BY DEF IInv, TypeOK, WriteCanonical
    <2>2. x \in Revision /\ x.by = None
      BY <2>1 DEF Request, Revision
    <2>3. rev' = Append(rev, x) /\ var' = var /\ req' = [req EXCEPT ![h] = Idle]
      BY <1>2 DEF WriteCanonical, AppendRevision, End
    <2> HIDE DEF x, r
    <2>4. /\ Revs' = Revs \cup {Len(rev) + 1} /\ rev'[Len(rev) + 1] = x
          /\ \A q \in Revs : rev'[q] = rev[q]
          /\ Branches' = Branches
          /\ \A b, t : t \in 0..Len(rev) => Span(rev', b, t) = Span(rev, b, t)
      BY <2>2, <2>3, BranchesGrow
    <2>5. Live' = Live /\ \A v \in Live : SpanOf(v)' = SpanOf(v) /\ v # None
      BY <2>3, <2>4, PointsExist, SceneAssumption DEF SpanOf, Live
    <2>6. \A g \in Handlers : req'[g] = req[g] \/ req'[g].phase # "insert"
      BY <2>3 DEF IInv, TypeOK, Idle
    <2>7. \A g \in Handlers : req'[g].phase = "insert" =>
            Span(rev', req'[g].base, req'[g].tip) \subseteq Branches'
      BY <2>4, <2>6, PointsExist DEF BInv
    <2>8. \A v \in Live, q \in Revs' : rev'[q].by = v => q \in SpanOf(v)'
      BY <2>2, <2>4, <2>5 DEF BInv
    <2>9. QED
      BY <2>4, <2>5, <2>7, <2>8 DEF BInv
  <1>3. QED
    BY <1>1, <1>2

\* An append makes the span of its variant one longer.
LEMMA AppendBranches ==
  ASSUME IInv, IInv', BInv, NEW h \in Handlers, WriteAppend(h)
  PROVE  BInv'
  <1> DEFINE r == req[h]
             n == Len(rev) + 1
  <1>1. CASE ~(Unused(r.cmd) /\ r.variant \in Live /\ var[r.variant].head = r.base)
    BY <1>1, RequestStays DEF WriteAppend, End, Idle
  <1>2. ASSUME NEW w \in Variants, w = r.variant, Unused(r.cmd), w \in Live, var[w].head = r.base
        PROVE  BInv'
    <2> DEFINE x == [parent |-> r.tip, cmd |-> r.cmd, based |-> r.base, by |-> w]
    <2>1. r \in Request /\ w \in Live /\ r.tip = var[w].head /\ w # None /\ w \in Variants
      BY <1>2, SceneAssumption DEF IInv, TypeOK, WriteAppend, ReadOK, Live
    <2>2. x \in Revision /\ x.by = w /\ x.parent = var[w].head
      BY <2>1 DEF Request, Revision
    <2>3. /\ rev' = Append(rev, x) /\ req' = [req EXCEPT ![h] = Idle]
          /\ var' = [var EXCEPT ![w].head = n]
      BY <1>2 DEF WriteAppend, AppendRevision, End
    <2> HIDE DEF x, r
    <2>4. /\ Revs' = Revs \cup {n} /\ n \notin Revs /\ rev'[n] = x
          /\ \A q \in Revs : rev'[q] = rev[q]
          /\ Branches' = Branches \cup {n}
          /\ \A b, t : t \in 0..Len(rev) => Span(rev', b, t) = Span(rev, b, t)
          /\ \A b : Span(rev', b, n) = IF n = b THEN {} ELSE {n} \cup Span(rev', b, x.parent)
      BY <2>1, <2>2, <2>3, BranchesGrow
    <2>5. /\ Live' = Live /\ var'[w].head = n /\ var'[w].base = var[w].base
          /\ \A v \in Live : v # w => var'[v] = var[v]
      BY <2>1, <2>3 DEF IInv, TypeOK, Live, Variant
    <2>6. \A v \in Live : v # w => SpanOf(v)' = SpanOf(v)
      BY <2>4, <2>5, PointsExist DEF SpanOf
    <2>7. SpanOf(w)' = SpanOf(w) \cup {n}
      <3>1. n # var[w].base /\ var[w].head \in 0..Len(rev)
        BY <2>1, <2>4, PointsExist
      <3> HIDE DEF n
      <3>2. Span(rev', var[w].base, var[w].head) = Span(rev, var[w].base, var[w].head)
        BY <2>4, <3>1
      <3>3. Span(rev', var[w].base, n) = {n} \cup Span(rev', var[w].base, var[w].head)
        BY <2>2, <2>4, <3>1
      <3>4. QED
        BY <2>5, <3>2, <3>3 DEF SpanOf
    <2>8. \A g \in Handlers : req'[g] = req[g] \/ req'[g].phase # "insert"
      BY <2>3 DEF IInv, TypeOK, Idle
    <2>9. \A g \in Handlers : req'[g].phase = "insert" =>
            Span(rev', req'[g].base, req'[g].tip) \subseteq Branches'
      BY <2>4, <2>8, PointsExist DEF BInv
    <2> HIDE DEF n
    <2>10. \A v \in Live, q \in Revs' : rev'[q].by = v => q \in SpanOf(v)'
      <3>1. ASSUME NEW v \in Live, NEW q \in Revs, rev[q].by = v PROVE q \in SpanOf(v)'
        <4>1. q \in SpanOf(v)
          BY <3>1 DEF BInv
        <4>2. QED
          BY <2>6, <2>7, <4>1
      <3>2. \A v \in Live : rev'[n].by = v => n \in SpanOf(v)'
        BY <2>2, <2>4, <2>7
      <3>3. QED
        BY <2>4, <3>1, <3>2
    <2>11. ASSUME NEW v \in Live PROVE SpanOf(v)' \subseteq Branches'
      <3>1. SpanOf(v) \subseteq Branches
        BY DEF BInv
      <3>2. QED
        BY <2>4, <2>6, <2>7, <3>1
    <2>12. QED
      BY <2>5, <2>9, <2>10, <2>11 DEF BInv
  <1>3. QED
    BY <1>1, <1>2 DEF Live

\* A new variant starts with what its source had, or with nothing.
LEMMA InsertBranches ==
  ASSUME IInv, IInv', BInv, NEW h \in Handlers, InsertVariant(h)
  PROVE  BInv'
  <1> DEFINE r == req[h]
  <1>1. PICK w \in Variants :
          /\ var[w].status = "absent"
          /\ var' = [var EXCEPT ![w] = [status |-> "draft", base |-> r.base, head |-> r.tip]]
    BY DEF InsertVariant
  <1>2. /\ r.phase = "insert" /\ rev' = rev /\ req' = [req EXCEPT ![h] = Idle]
    BY DEF InsertVariant, End
  <1>3. /\ Live' = Live \cup {w} /\ w \notin Live
        /\ var'[w].base = r.base /\ var'[w].head = r.tip
        /\ \A v \in Variants : v # w => var'[v] = var[v]
    BY <1>1 DEF IInv, TypeOK, Live, Variant, Stored
  <1>4. \A q \in Revs : rev[q].by # w
    BY <1>1, SceneAssumption DEF IInv, BornFirst
  <1>5. Revs' = Revs /\ Branches' = Branches
    BY <1>2 DEF Revs, Branches
  <1>6. SpanOf(w)' = Span(rev, r.base, r.tip)
    BY <1>2, <1>3 DEF SpanOf
  <1>7. \A v \in Live : SpanOf(v)' = SpanOf(v)
    BY <1>2, <1>3 DEF SpanOf, Live
  <1>8. Span(rev, r.base, r.tip) \subseteq Branches
    BY <1>2 DEF BInv
  <1>9. \A g \in Handlers : req'[g] = req[g] \/ req'[g].phase # "insert"
    BY <1>2 DEF IInv, TypeOK, Idle
  <1>10. \A g \in Handlers : req'[g].phase = "insert" =>
           Span(rev', req'[g].base, req'[g].tip) \subseteq Branches'
    BY <1>2, <1>5, <1>9 DEF BInv
  <1>11. QED
    BY <1>2, <1>3, <1>4, <1>5, <1>6, <1>7, <1>8, <1>10 DEF BInv

\* A walk that begins where it ends collects nothing.
LEMMA SpanEmpty == ASSUME TypeOK, NEW b \in 0..Len(rev) PROVE Span(rev, b, b) = {}
  BY RevsRooted, SpanStep

\* A fork takes the span of its source, or starts at one revision.
LEMMA ForkBranches ==
  ASSUME IInv, BInv, NEW h \in Handlers, NEW v \in Variants, NEW from \in 0..Len(rev),
         Fork(h, v, from)
  PROVE  BInv'
  <1> DEFINE b == IF from = 0 THEN var[v].base ELSE from
             t == IF from = 0 THEN var[v].head ELSE from
             r == [Idle EXCEPT !.phase = "insert", !.base = b, !.tip = t]
  <1>1. v \in Live /\ req' = [req EXCEPT ![h] = r] /\ UNCHANGED <<rev, var>>
    BY DEF Fork, Begin
  <1>2. r.base = b /\ r.tip = t
    BY DEF Idle
  <1>3. Span(rev, b, t) \subseteq Branches
    <2>1. CASE from = 0
      BY <1>1, <2>1 DEF BInv, SpanOf
    <2>2. CASE from # 0
      BY <2>2, SpanEmpty DEF IInv
    <2>3. QED
      BY <2>1, <2>2
  <1> HIDE DEF r
  <1>4. QED
    BY <1>1, <1>2, <1>3, RequestStays

\* The other requests that begin do not insert a variant.
LEMMA BeginBranches ==
  ASSUME IInv, BInv, NEW h \in Handlers, NEW r, Begin(h, r), r.phase # "insert"
  PROVE  BInv'
  BY RequestStays DEF Begin

\* What latest_revision has read: a seed inserts a variant at one revision.
LEMMA ReadTipBranches ==
  ASSUME IInv, BInv, NEW h \in Handlers, ReadTip(h)
  PROVE  BInv'
  <1> DEFINE r == req[h]
  <1>1. PICK tip \in 0..Len(rev) :
          req' = [req EXCEPT ![h] =
               IF ~Accepts(r.op, r.base, tip) THEN Idle
               ELSE [r EXCEPT !.phase = IF r.op = "seed" THEN "insert" ELSE "write",
                              !.base = IF r.op = "seed" THEN tip ELSE r.base,
                              !.op = "none", !.owned = {}, !.tip = tip]]
    BY DEF ReadTip
  <1> DEFINE s == [r EXCEPT !.phase = IF r.op = "seed" THEN "insert" ELSE "write",
                            !.base = IF r.op = "seed" THEN tip ELSE r.base,
                            !.op = "none", !.owned = {}, !.tip = tip]
  <1>2. r \in Request /\ UNCHANGED <<rev, var>>
    BY DEF ReadTip, IInv, TypeOK
  <1>3. s.phase = "insert" => s.base = tip /\ s.tip = tip
    BY <1>2 DEF Request
  <1>4. req' = [req EXCEPT ![h] = Idle] \/ req' = [req EXCEPT ![h] = s]
    BY <1>1
  <1>5. Idle.phase # "insert"
    BY DEF Idle
  <1> HIDE DEF s
  <1>6. s.phase = "insert" => Span(rev, s.base, s.tip) \subseteq Branches
    BY <1>3, SpanEmpty DEF IInv
  <1>7. QED
    BY <1>2, <1>4, <1>5, <1>6, RequestStays

\* The statuses a request may have noted are stored ones, so no variant comes to life.
LEMMA StatusBranches ==
  ASSUME IInv, BInv, NEW h \in Handlers, WriteStatus(h) \/ WriteDelete(h)
  PROVE  BInv'
  <1> DEFINE r == req[h]
  <1>1. UNCHANGED rev /\ req' = [req EXCEPT ![h] = Idle]
    BY DEF WriteStatus, WriteDelete, End
  <1>2. /\ Live' \subseteq Live
        /\ \A v \in Variants : var'[v].base = var[v].base /\ var'[v].head = var[v].head
    <2>1. CASE WriteDelete(h)
      BY <2>1 DEF WriteDelete, IInv, TypeOK, Variant, Live, Stored
    <2>2. CASE WriteStatus(h) /\ Changed(r) \subseteq Live
      BY <2>2 DEF WriteStatus, IInv, TypeOK, Variant, Live
    <2>3. CASE WriteStatus(h) /\ ~(Changed(r) \subseteq Live)
      BY <2>3 DEF WriteStatus, Live
    <2>4. QED
      BY <2>1, <2>2, <2>3
  <1>3. \A g \in Handlers : req'[g] = req[g] \/ req'[g].phase # "insert"
    BY <1>1 DEF IInv, TypeOK, Idle
  <1>4. \A g \in Handlers : req'[g].phase = "insert" =>
          Span(rev, req'[g].base, req'[g].tip) \subseteq Branches
    BY <1>3 DEF BInv
  <1>5. QED
    BY <1>1, <1>2, <1>4, BranchesStay

\* Every action keeps the branches apart.
LEMMA BranchStep == IInv /\ IInv' /\ BInv /\ [Next]_vars => BInv'
  <1> SUFFICES ASSUME IInv, IInv', BInv, [Next]_vars PROVE BInv'
    OBVIOUS
  <1>1. CASE UNCHANGED vars
    <2>1. UNCHANGED <<rev, var, req>> /\ Live' = Live
      BY <1>1 DEF vars, Live
    <2>2. QED
      BY <2>1, BranchesStay DEF BInv
  <1>2. ASSUME NEW h \in Handlers, Canonical(h) PROVE BInv'
    <2>1. ASSUME NEW op \in Ops \ {"none"}, NEW base, NEW cmd, Walk(h, op, base, cmd)
          PROVE  BInv'
      <3> DEFINE r == [Idle EXCEPT !.phase = "walk", !.op = op, !.base = base, !.cmd = cmd,
                                   !.owned = Owned]
      <3>1. Begin(h, r) /\ r.phase # "insert"
        BY <2>1 DEF Walk, Idle
      <3> HIDE DEF r
      <3>2. QED
        BY <3>1, BeginBranches
    <2>2. QED
      BY <1>2, <2>1, ReadTipBranches, CanonicalBranches DEF Canonical
  <1>3. ASSUME NEW h \in Handlers, Branch(h) PROVE BInv'
    <2>1. ASSUME NEW v, NEW base, NEW cmd, BeginAppend(h, v, base, cmd) PROVE BInv'
      <3> DEFINE r == [Idle EXCEPT !.phase = "write", !.variant = v, !.cmd = cmd, !.base = base,
                                   !.tip = base]
      <3>1. Begin(h, r) /\ r.phase # "insert"
        BY <2>1 DEF BeginAppend, Idle
      <3> HIDE DEF r
      <3>2. QED
        BY <3>1, BeginBranches
    <2>2. QED
      BY <1>3, <2>1, AppendBranches DEF Branch
  <1>4. ASSUME NEW h \in Handlers, Lifecycle(h) PROVE BInv'
    <2>1. ASSUME NEW s, SetStatus(h, s) PROVE BInv'
      <3> DEFINE r == [Idle EXCEPT !.phase = "status", !.seen = StatusNow, !.status = s]
      <3>1. Begin(h, r) /\ r.phase # "insert"
        BY <2>1 DEF SetStatus, Idle
      <3> HIDE DEF r
      <3>2. QED
        BY <3>1, BeginBranches
    <2>2. ASSUME NEW v, BeginDelete(h, v) PROVE BInv'
      <3> DEFINE r == [Idle EXCEPT !.phase = "delete", !.variant = v]
      <3>1. Begin(h, r) /\ r.phase # "insert"
        BY <2>2 DEF BeginDelete, Idle
      <3> HIDE DEF r
      <3>2. QED
        BY <3>1, BeginBranches
    <2>3. QED
      BY <1>4, <2>1, <2>2, ForkBranches, InsertBranches, StatusBranches
      DEF Lifecycle, Approve, Patch
  <1>5. ASSUME NEW h \in Handlers, Abort(h) PROVE BInv'
    BY <1>5, RequestStays DEF Abort, End, Idle
  <1>6. QED
    BY <1>1, <1>2, <1>3, <1>4, <1>5 DEF Next

\* There are no branches at first.
LEMMA BranchInvariance == Spec => []BInv
  <1>1. Init => BInv
    <2> SUFFICES ASSUME Init PROVE BInv
      OBVIOUS
    <2>1. Live = {} /\ \A h \in Handlers : req[h].phase = "idle"
      BY DEF Init, Live, Stored, Idle
    <2>2. QED
      BY <2>1 DEF BInv
  <1>2. QED
    BY <1>1, BranchStep, Inductive, PTL DEF Spec

\* The walk over the variants tells what they own.
LEMMA OwnedIsBranches ==
  ASSUME IInv, BInv
  PROVE  /\ Owned \subseteq Branches
         /\ (\A v \in Variants : var[v].status # "deleted") => Owned = Branches
  <1>1. \A v \in Live : Segment(v) = SpanOf(v)
    BY SegmentIsSpan DEF IInv, SpanOf
  <1>2. Owned \subseteq Branches
    BY <1>1 DEF Owned, BInv
  <1>3. ASSUME \A v \in Variants : var[v].status # "deleted", NEW r \in Branches
        PROVE  r \in Owned
    <2>1. r \in Revs /\ rev[r].by \in Variants /\ var[rev[r].by].status # "absent"
      BY BranchOf DEF Branches, IInv, BornFirst
    <2>2. rev[r].by \in Live
      BY <1>3, <2>1 DEF IInv, TypeOK, Live, Variant, Status
    <2>3. r \in Segment(rev[r].by)
      BY <1>1, <2>1, <2>2 DEF BInv
    <2>4. QED
      BY <2>1, <2>2, <2>3 DEF Owned
  <1>4. QED
    BY <1>2, <1>3

\* latest_revision passes over revisions of variants only, and over all of them as long
\* as no variant was deleted, for any tree of forks.
THEOREM BranchesApart == Spec => []BranchesOwned
  <1>1. IInv /\ BInv => BranchesOwned
    BY OwnedIsBranches DEF BranchesOwned, Branches
  <1>2. QED
    BY <1>1, Inductive, BranchInvariance, PTL

-----------------------------------------------------------------------------
(* Requests that do not overlap.  While a request is served no other is,   *)
(* so what it read of statuses and of the newest canonical revision is     *)
(* still so when it writes (Reads).                                        *)

NoneDeleted == \A v \in Variants : var[v].status # "deleted"

OneNow == \A u, v \in Variants : var[u].status = "approved" /\ var[v].status = "approved" => u = v

Reads(r) ==
  /\ r.phase = "status" =>
       /\ r.seen = StatusNow
       /\ \A u, v \in Variants : r.status[u] = "approved" /\ r.status[v] = "approved" => u = v
  /\ r.phase = "walk" =>
       /\ NoneDeleted => r.owned = Branches
       /\ r.op \in Ops \ {"none"} /\ (r.op # "edit" => r.base = 0)
  /\ r.phase = "write" /\ r.variant = None /\ NoneDeleted =>
       Newest(r.tip, Branches) /\ r.base \in {0, r.tip}

LInv ==
  overlaps = 0 =>
    /\ \A g, h \in Handlers : ~Free(g) /\ ~Free(h) => g = h
    /\ OneNow
    /\ NoneDeleted => Chained
    /\ \A h \in Handlers : Reads(req[h])

\* What a request has read stays so while neither revisions nor variants change.
LEMMA ReadsStay ==
  ASSUME UNCHANGED <<rev, var>>
  PROVE  /\ \A r : Reads(r) => Reads(r)'
         /\ NoneDeleted' = NoneDeleted /\ (OneNow => OneNow') /\ (Chained => Chained')
  <1>1. Revs' = Revs /\ Branches' = Branches /\ StatusNow' = StatusNow
        /\ NoneDeleted' = NoneDeleted /\ Trunk' = Trunk
    BY DEF Revs, Branches, StatusNow, NoneDeleted, Trunk
  <1>2. ASSUME NEW r, Reads(r) PROVE Reads(r)'
    BY <1>1, <1>2 DEF Reads, Newest
  <1>3. Chained => Chained'
    BY <1>1 DEF Chained, Before
  <1>4. QED
    BY <1>1, <1>2, <1>3 DEF OneNow

\* A request begins while no other is served.
LEMMA SoleBegin ==
  ASSUME IInv, LInv, NEW h \in Handlers, NEW r, Begin(h, r),
         overlaps = 0 /\ OneNow /\ Alone(h) => Reads(r)
  PROVE  LInv'
  <1> SUFFICES ASSUME overlaps' = 0 PROVE LInv'
    BY DEF LInv
  <1>1. overlaps = 0 /\ Alone(h) /\ req' = [req EXCEPT ![h] = r] /\ UNCHANGED <<rev, var>>
    BY DEF Begin, IInv, TypeOK
  <1>2. OneNow /\ (NoneDeleted => Chained) /\ \A g \in Handlers : Reads(req[g])
    BY <1>1 DEF LInv
  <1>3. \A g \in Handlers : req'[g] = IF g = h THEN r ELSE req[g]
    BY <1>1 DEF IInv, TypeOK
  <1>4. \A f, g \in Handlers : ~Free(f)' /\ ~Free(g)' => f = g
    BY <1>1, <1>3 DEF Alone, Free
  <1>5. \A g \in Handlers : Reads(req'[g])
    BY <1>1, <1>2, <1>3
  <1>6. \A g \in Handlers : Reads(req[g])'
    <2>1. ASSUME NEW g \in Handlers PROVE Reads(req[g])'
      <3>1. PICK s : s = req'[g]
        OBVIOUS
      <3>2. Reads(s)'
        BY <1>1, <1>5, <3>1, ReadsStay
      <3>3. QED
        BY <3>1, <3>2 DEF Reads
    <2>2. QED
      BY <2>1
  <1>7. QED
    BY <1>1, <1>2, <1>4, <1>6, ReadsStay DEF LInv

\* The one request there is ends.
LEMMA SoleEnd ==
  ASSUME IInv, LInv, NEW h \in Handlers, ~Free(h), End(h),
         overlaps = 0 => OneNow' /\ (NoneDeleted' => Chained')
  PROVE  LInv'
  <1> SUFFICES ASSUME overlaps' = 0 PROVE LInv'
    BY DEF LInv
  <1>1. overlaps = 0 /\ req' = [req EXCEPT ![h] = Idle]
    BY DEF End
  <1>2. \A g \in Handlers : Free(g)'
    BY <1>1 DEF LInv, Free, IInv, TypeOK, Idle
  <1>3. \A g \in Handlers : Reads(req[g])'
    BY <1>2 DEF Reads, Free
  <1>4. QED
    BY <1>1, <1>2, <1>3 DEF LInv

\* ... without a write
LEMMA SoleEndsIdle ==
  ASSUME IInv, LInv, NEW h \in Handlers, ~Free(h), End(h), UNCHANGED <<rev, var>>
  PROVE  LInv'
  <1>1. overlaps = 0 => OneNow' /\ (NoneDeleted' => Chained')
    BY ReadsStay DEF LInv
  <1>2. QED
    BY <1>1, SoleEnd

\* The chain grows at its end.
LEMMA ChainGrows ==
  ASSUME IInv, IInv', BInv, NEW x \in Revision, rev' = Append(rev, x), Chained,
         x.by = None => Newest(x.parent, Branches) /\ x.based \in {0, x.parent}
  PROVE  Chained'
  <1> DEFINE n == Len(rev) + 1
  <1>1. /\ Revs' = Revs \cup {n} /\ n \notin Revs /\ rev'[n] = x
        /\ \A r \in Revs : rev'[r] = rev[r]
    BY BranchesGrow
  <1>2. Len(rev) \in Nat /\ Revs = 1..Len(rev) /\ Len(rev') \in Nat /\ Revs' = 1..Len(rev')
    BY LenNat, LenProperties DEF IInv, TypeOK, Revs
  <1>3. Trunk' = Trunk \cup (IF x.by = None THEN {n} ELSE {}) /\ Trunk \subseteq Revs
    BY <1>1 DEF Trunk
  <1>4. Trunk = Revs \ Branches
    BY DEF Trunk, Branches
  <1> SUFFICES ASSUME NEW r \in Trunk', NEW q \in 0..Len(rev'), Before(q, r)'
               PROVE  rev'[r].parent = q /\ (rev'[r].based # 0 => rev'[r].based = q)
    BY DEF Chained
  <1>5. q \in {0} \cup Trunk' /\ q < r /\ \A p \in Trunk' : p < r => p <= q
    BY DEF Before
  <1> HIDE DEF n
  <1>6. \A p \in Trunk : p \in Nat /\ p # 0 /\ p < n
    BY <1>2, <1>3 DEF n
  <1>7. n \in Nat /\ r \in Nat /\ q \in Nat
    BY <1>1, <1>2, <1>3, <1>6 DEF n
  <1>8. CASE r \in Trunk
    <2>1. q \in {0} \cup Trunk
      BY <1>3, <1>5, <1>6, <1>7, <1>8
    <2>2. Before(q, r) /\ q \in 0..Len(rev)
      BY <1>2, <1>3, <1>5, <1>8, <2>1 DEF Before
    <2>3. rev[r].parent = q /\ (rev[r].based # 0 => rev[r].based = q)
      BY <1>8, <2>2 DEF Chained
    <2>4. rev'[r] = rev[r]
      BY <1>1, <1>3, <1>8
    <2>5. QED
      BY <2>3, <2>4
  <1>9. CASE r = n /\ x.by = None
    <2>1. q \in {0} \cup Trunk /\ \A p \in Trunk : p <= q
      BY <1>3, <1>5, <1>6, <1>7, <1>9
    <2>2. q = x.parent
      <3>1. CASE Trunk = {}
        <4>1. Revs \subseteq Branches
          BY <1>4, <3>1
        <4>2. QED
          BY <1>9, <2>1, <3>1, <4>1 DEF Newest
      <3>2. CASE Trunk # {}
        <4>1. x.parent \in Trunk /\ \A p \in Trunk : p <= x.parent
          BY <1>4, <1>9, <3>2 DEF Newest
        <4>2. x.parent \in Nat /\ x.parent # 0
          BY <1>6, <4>1
        <4>3. q # 0
          BY <2>1, <4>1, <4>2
        <4>4. QED
          BY <1>7, <2>1, <4>1, <4>2, <4>3
      <3>3. QED
        BY <3>1, <3>2
    <2>3. QED
      BY <1>1, <1>9, <2>2
  <1>10. QED
    BY <1>3, <1>8, <1>9

\* The two appends keep the canonical history a chain.
LEMMA AppendLinear ==
  ASSUME IInv, IInv', BInv, LInv, NEW h \in Handlers, WriteCanonical(h) \/ WriteAppend(h)
  PROVE  LInv'
  <1> DEFINE r == req[h]
             x == [parent |-> r.tip, cmd |-> r.cmd, based |-> r.base, by |-> r.variant]
  <1>1. ~Free(h) /\ End(h) /\ r.phase = "write" /\ r \in Request
    BY DEF WriteCanonical, WriteAppend, Free, IInv, TypeOK
  <1>2. CASE UNCHANGED <<rev, var>>
    BY <1>1, <1>2, SoleEndsIdle
  <1>3. CASE rev' = Append(rev, x) /\ \A v \in Variants : var'[v].status = var[v].status
    <2>1. x \in Revision /\ x.by = r.variant /\ x.parent = r.tip /\ x.based = r.base
      BY <1>1 DEF Request, Revision
    <2>2. NoneDeleted' = NoneDeleted
      BY <1>3 DEF NoneDeleted
    <2>3. ASSUME overlaps = 0 PROVE OneNow'
      BY <1>3, <2>3 DEF LInv, OneNow
    <2> HIDE DEF x
    <2>4. ASSUME overlaps = 0, NoneDeleted PROVE Chained'
      <3>1. Chained /\ Reads(r)
        BY <2>4 DEF LInv
      <3>2. x.by = None => Newest(x.parent, Branches) /\ x.based \in {0, x.parent}
        BY <1>1, <2>1, <2>4, <3>1 DEF Reads
      <3>3. QED
        BY <1>3, <2>1, <3>1, <3>2, ChainGrows
    <2>5. QED
      BY <1>1, <2>2, <2>3, <2>4, SoleEnd
  <1>4. CASE WriteCanonical(h)
    BY <1>2, <1>3, <1>4 DEF WriteCanonical, AppendRevision
  <1>5. CASE WriteAppend(h)
    BY <1>2, <1>3, <1>5 DEF WriteAppend, AppendRevision, IInv, TypeOK, Variant
  <1>6. QED
    BY <1>4, <1>5

\* The writes of variants approve one at most, and delete for good.
LEMMA VariantsLinear ==
  ASSUME IInv, LInv, NEW h \in Handlers, InsertVariant(h) \/ WriteStatus(h) \/ WriteDelete(h)
  PROVE  LInv'
  <1> DEFINE r == req[h]
  <1>1. ~Free(h) /\ End(h) /\ UNCHANGED rev
    BY DEF InsertVariant, WriteStatus, WriteDelete, Free
  <1>2. Chained => Chained'
    BY <1>1 DEF Chained, Before, Trunk, Revs
  <1>3. CASE InsertVariant(h)
    <2>1. \A v \in Variants : \/ var'[v].status = var[v].status
                              \/ var[v].status = "absent" /\ var'[v].status = "draft"
      BY <1>3 DEF InsertVariant, IInv, TypeOK
    <2>2. NoneDeleted' => NoneDeleted
      BY <2>1 DEF NoneDeleted
    <2>3. OneNow => OneNow'
      BY <2>1 DEF OneNow
    <2>4. QED
      BY <1>1, <1>2, <2>2, <2>3, SoleEnd DEF LInv
  <1>4. CASE WriteStatus(h) /\ ~(Changed(r) \subseteq Live)
    BY <1>1, <1>4, SoleEndsIdle DEF WriteStatus
  <1>5. CASE WriteStatus(h) /\ Changed(r) \subseteq Live
    <2>1. r.phase = "status"
      BY <1>5 DEF WriteStatus
    <2>2. var' = [v \in Variants |->
             IF v \in Changed(r) THEN [var[v] EXCEPT !.status = r.status[v]] ELSE var[v]]
      BY <1>5 DEF WriteStatus
    <2>3. \A v \in Variants : /\ var'[v].status = IF v \in Changed(r) THEN r.status[v]
                                                  ELSE var[v].status
                              /\ v \in Changed(r) => var[v].status # "deleted"
      BY <1>5, <2>2 DEF IInv, TypeOK, Variant, Live, Stored
    <2>4. NoneDeleted' => NoneDeleted
      BY <2>3 DEF NoneDeleted
    <2>5. ASSUME overlaps = 0 PROVE OneNow'
      <3>1. /\ r.seen = StatusNow
            /\ \A u, v \in Variants : r.status[u] = "approved" /\ r.status[v] = "approved" => u = v
        BY <2>1, <2>5 DEF LInv, Reads
      <3>2. \A v \in Variants : var'[v].status = r.status[v]
        BY <2>3, <3>1 DEF Changed, StatusNow
      <3>3. QED
        BY <3>1, <3>2 DEF OneNow
    <2>6. QED
      BY <1>1, <1>2, <2>4, <2>5, SoleEnd DEF LInv
  <1>6. CASE WriteDelete(h)
    <2>1. r.variant \in Variants
      BY <1>6 DEF IInv, ReadOK, WriteDelete
    <2>2. \A v \in Variants : var'[v].status = IF v = r.variant THEN "deleted" ELSE var[v].status
      BY <1>6, <2>1 DEF WriteDelete, IInv, TypeOK, Variant
    <2>3. ~NoneDeleted'
      BY <2>1, <2>2 DEF NoneDeleted
    <2>4. OneNow => OneNow'
      BY <2>2 DEF OneNow
    <2>5. QED
      BY <1>1, <2>3, <2>4, SoleEnd DEF LInv
  <1>7. QED
    BY <1>3, <1>4, <1>5, <1>6

\* latest_revision reads the newest canonical revision.
LEMMA ReadTipLinear ==
  ASSUME IInv, LInv, NEW h \in Handlers, ReadTip(h)
  PROVE  LInv'
  <1> DEFINE r == req[h]
  <1>1. PICK tip \in 0..Len(rev) :
          /\ Newest(tip, r.owned)
          /\ req' = [req EXCEPT ![h] =
               IF ~Accepts(r.op, r.base, tip) THEN Idle
               ELSE [r EXCEPT !.phase = IF r.op = "seed" THEN "insert" ELSE "write",
                              !.base = IF r.op = "seed" THEN tip ELSE r.base,
                              !.op = "none", !.owned = {}, !.tip = tip]]
    BY DEF ReadTip
  <1>2. /\ r.phase = "walk" /\ ~Free(h) /\ UNCHANGED <<rev, var, overlaps>>
        /\ r \in Request /\ r.variant = None
    BY DEF ReadTip, Free, IInv, TypeOK, ReadOK
  <1>3. CASE ~Accepts(r.op, r.base, tip)
    BY <1>1, <1>2, <1>3, SoleEndsIdle DEF End
  <1>4. CASE Accepts(r.op, r.base, tip)
    <2> DEFINE s == [r EXCEPT !.phase = IF r.op = "seed" THEN "insert" ELSE "write",
                              !.base = IF r.op = "seed" THEN tip ELSE r.base,
                              !.op = "none", !.owned = {}, !.tip = tip]
    <2>1. req' = [req EXCEPT ![h] = s]
      BY <1>1, <1>4
    <2>2. /\ s.phase = (IF r.op = "seed" THEN "insert" ELSE "write")
          /\ s.tip = tip /\ (r.op # "seed" => s.base = r.base) /\ s.variant = None
      BY <1>2 DEF Request
    <2> HIDE DEF s
    <2> SUFFICES ASSUME overlaps = 0 PROVE LInv'
      BY <1>2 DEF LInv
    <2>3. /\ OneNow /\ (NoneDeleted => Chained) /\ Reads(r)
          /\ \A g \in Handlers : g # h => Free(g)
      BY <1>2 DEF LInv
    <2>4. Reads(s)
      <3>1. ASSUME NoneDeleted, r.op # "seed" PROVE Newest(tip, Branches) /\ r.base \in {0, tip}
        <4>1. r.owned = Branches /\ r.op \in {"init", "edit", "snapshot"}
              /\ (r.op # "edit" => r.base = 0)
          BY <1>2, <2>3, <3>1 DEF Reads, Ops
        <4>2. r.op = "edit" => tip = r.base
          BY <1>4 DEF Accepts
        <4>3. QED
          BY <1>1, <4>1, <4>2
      <3>2. QED
        BY <2>2, <3>1 DEF Reads
    <2>5. \A g \in Handlers : req'[g] = IF g = h THEN s ELSE req[g]
      BY <2>1 DEF IInv, TypeOK
    <2>6. \A f, g \in Handlers : ~Free(f)' /\ ~Free(g)' => f = g
      BY <2>3, <2>5 DEF Free
    <2>7. ASSUME NEW g \in Handlers PROVE Reads(req[g])'
      <3>1. CASE g = h
        <4>1. PICK t : t = s
          OBVIOUS
        <4>2. Reads(t)'
          BY <1>2, <2>4, <4>1, ReadsStay
        <4>3. QED
          BY <2>5, <3>1, <4>1, <4>2 DEF Reads
      <3>2. CASE g # h
        BY <2>3, <2>5, <3>2 DEF Reads, Free
      <3>3. QED
        BY <3>1, <3>2
    <2>8. QED
      BY <1>2, <2>3, <2>6, <2>7, ReadsStay DEF LInv
  <1>5. QED
    BY <1>3, <1>4

\* What a request reads when it begins.
LEMMA BeginLinear ==
  ASSUME IInv, BInv, LInv, NEW h \in Handlers
  PROVE  /\ \A op \in Ops \ {"none"} : \A base, cmd : Walk(h, op, base, cmd) => LInv'
         /\ \A v \in Variants : \A base, cmd : BeginAppend(h, v, base, cmd) => LInv'
         /\ \A v, from : Fork(h, v, from) => LInv'
         /\ \A v : Approve(h, v) \/ BeginDelete(h, v) => LInv'
         /\ \A v, s : Patch(h, v, s) => LInv'
  <1>1. ASSUME NEW op \in Ops \ {"none"}, NEW base, NEW cmd, Walk(h, op, base, cmd) PROVE LInv'
    <2> DEFINE r == [Idle EXCEPT !.phase = "walk", !.op = op, !.base = base, !.cmd = cmd,
                                 !.owned = Owned]
    <2>1. Begin(h, r) /\ r.phase = "walk" /\ r.op = op /\ r.base = base /\ r.owned = Owned
          /\ (op # "edit" => base = 0)
      BY <1>1 DEF Walk, Idle
    <2> HIDE DEF r
    <2>2. Reads(r)
      BY <2>1, OwnedIsBranches DEF Reads, NoneDeleted
    <2>3. QED
      BY <2>1, <2>2, SoleBegin
  <1>2. ASSUME NEW v \in Variants, NEW base, NEW cmd, BeginAppend(h, v, base, cmd) PROVE LInv'
    <2> DEFINE r == [Idle EXCEPT !.phase = "write", !.variant = v, !.cmd = cmd, !.base = base,
                                 !.tip = base]
    <2>1. Begin(h, r) /\ r.phase = "write" /\ r.variant # None
      BY <1>2, SceneAssumption DEF BeginAppend, Idle
    <2> HIDE DEF r
    <2>2. QED
      BY <2>1, SoleBegin DEF Reads
  <1>3. ASSUME NEW v, NEW from, Fork(h, v, from) PROVE LInv'
    <2> DEFINE r == [Idle EXCEPT !.phase = "insert",
                                 !.base = IF from = 0 THEN var[v].base ELSE from,
                                 !.tip = IF from = 0 THEN var[v].head ELSE from]
    <2>1. Begin(h, r) /\ r.phase = "insert"
      BY <1>3 DEF Fork, Idle
    <2> HIDE DEF r
    <2>2. QED
      BY <2>1, SoleBegin DEF Reads
  <1>4. ASSUME NEW v, BeginDelete(h, v) PROVE LInv'
    <2> DEFINE r == [Idle EXCEPT !.phase = "delete", !.variant = v]
    <2>1. Begin(h, r) /\ r.phase = "delete"
      BY <1>4 DEF BeginDelete, Idle
    <2> HIDE DEF r
    <2>2. QED
      BY <2>1, SoleBegin DEF Reads
  <1>5. ASSUME NEW s, SetStatus(h, s),
               OneNow => \A u, v \in Variants : s[u] = "approved" /\ s[v] = "approved" => u = v
        PROVE  LInv'
    <2> DEFINE r == [Idle EXCEPT !.phase = "status", !.seen = StatusNow, !.status = s]
    <2>1. Begin(h, r) /\ r.phase = "status" /\ r.seen = StatusNow /\ r.status = s
      BY <1>5 DEF SetStatus, Idle
    <2> HIDE DEF r
    <2>2. OneNow => Reads(r)
      BY <1>5, <2>1 DEF Reads
    <2>3. QED
      BY <2>1, <2>2, SoleBegin
  <1>6. ASSUME NEW v, Approve(h, v) PROVE LInv'
    <2> DEFINE s == [u \in Variants |->
                       IF u = v THEN "approved"
                       ELSE IF var[u].status = "approved" THEN "shortlisted" ELSE var[u].status]
    <2>1. SetStatus(h, s)
      BY <1>6 DEF Approve
    <2>2. \A u \in Variants : s[u] = "approved" => u = v
      OBVIOUS
    <2> HIDE DEF s
    <2>3. QED
      BY <1>5, <2>1, <2>2
  <1>7. ASSUME NEW v, NEW t, Patch(h, v, t) PROVE LInv'
    <2> DEFINE s == [StatusNow EXCEPT ![v] = t]
    <2>1. SetStatus(h, s) /\ t # "approved"
      BY <1>7 DEF Patch, Patched
    <2>2. \A u \in Variants : s[u] = IF u = v THEN t ELSE var[u].status
      BY DEF StatusNow
    <2> HIDE DEF s
    <2>3. OneNow => \A u, w \in Variants : s[u] = "approved" /\ s[w] = "approved" => u = w
      BY <2>1, <2>2 DEF OneNow
    <2>4. QED
      BY <1>5, <2>1, <2>3
  <1>8. QED
    BY <1>1, <1>2, <1>3, <1>4, <1>6, <1>7

\* Every action keeps what requests that do not overlap rely on.
LEMMA LinearStep == IInv /\ IInv' /\ BInv /\ LInv /\ [Next]_vars => LInv'
  <1> SUFFICES ASSUME IInv, IInv', BInv, LInv, [Next]_vars PROVE LInv'
    OBVIOUS
  <1>1. CASE UNCHANGED vars
    <2>1. UNCHANGED <<rev, var, req, overlaps>>
      BY <1>1 DEF vars
    <2>2. \A h \in Handlers : Reads(req[h]) => Reads(req[h])'
      BY <2>1 DEF Reads, Newest, Branches, Revs, StatusNow, NoneDeleted
    <2>3. QED
      BY <2>1, <2>2, ReadsStay DEF LInv, Free
  <1>2. ASSUME NEW h \in Handlers, Canonical(h) PROVE LInv'
    BY <1>2, BeginLinear, ReadTipLinear, AppendLinear DEF Canonical
  <1>3. ASSUME NEW h \in Handlers, Branch(h) PROVE LInv'
    BY <1>3, BeginLinear, AppendLinear DEF Branch
  <1>4. ASSUME NEW h \in Handlers, Lifecycle(h) PROVE LInv'
    BY <1>4, BeginLinear, VariantsLinear DEF Lifecycle
  <1>5. ASSUME NEW h \in Handlers, Abort(h) PROVE LInv'
    BY <1>5, SoleEndsIdle DEF Abort
  <1>6. QED
    BY <1>1, <1>2, <1>3, <1>4, <1>5 DEF Next

\* An empty project has no history to break.
LEMMA LinearInvariance == Spec => []LInv
  <1>1. Init => LInv
    <2> SUFFICES ASSUME Init PROVE LInv
      OBVIOUS
    <2>1. \A h \in Handlers : Free(h) /\ Reads(req[h])
      BY DEF Init, Free, Reads, Idle
    <2>2. OneNow /\ Revs = {}
      BY DEF Init, OneNow, Revs
    <2>3. Chained
      BY <2>2 DEF Chained, Trunk
    <2>4. QED
      BY <2>1, <2>2, <2>3 DEF LInv
  <1>2. QED
    BY <1>1, LinearStep, Inductive, BranchInvariance, PTL DEF Spec

\* If no request began while another was served, the canonical history is one chain and
\* every edit was made against the revision just before it, until a variant is deleted.
THEOREM HistoryLinear == Spec => []CanonicalLinear
  <1>1. LInv => CanonicalLinear
    BY DEF LInv, CanonicalLinear, NoneDeleted
  <1>2. QED
    BY <1>1, LinearInvariance, PTL

\* If no request began while another was served, at most one variant is approved.
THEOREM ApprovedOnce == Spec => []OneApproved
  <1>1. LInv => OneApproved
    BY DEF LInv, OneApproved, OneNow
  <1>2. QED
    BY <1>1, LinearInvariance, PTL

-----------------------------------------------------------------------------
(* The variants implement the branch service.  A request in flight holds   *)
(* the span it has read; appending leaves all older spans alone, so an     *)
(* open branch holds what it held and the one new edit.                    *)

Requested(r) == IF r.phase = "insert" THEN {Span(rev, r.base, r.tip)} ELSE {}

\* what branches and copies hold, as spans
AsSpans ==
  /\ BranchContent = [v \in Variants |-> IF v \in Live THEN SpanOf(v) ELSE {}]
  /\ CopiesHeld = [h \in Handlers |-> Requested(req[h])]

\* The walks of the model are spans.
LEMMA HeldSpans == IInv => AsSpans
  <1> SUFFICES ASSUME IInv PROVE AsSpans
    OBVIOUS
  <1>1. \A v \in Live : Segment(v) = SpanOf(v)
    BY SegmentIsSpan DEF IInv, SpanOf
  <1>2. \A h \in Handlers : req[h].phase = "insert" =>
          Walked(req[h].base, req[h].tip) = Span(rev, req[h].base, req[h].tip)
    BY WalkedIsSpan, PointsExist DEF IInv
  <1>3. QED
    BY <1>1, <1>2 DEF AsSpans, BranchContent, CopiesHeld, Requested

\* A request that begins or goes on without a write changes its own copy at most.
LEMMA RequestCopies ==
  ASSUME IInv, IInv', UNCHANGED <<rev, var>>, NEW h \in Handlers, NEW r,
         req' = [req EXCEPT ![h] = r]
  PROVE  /\ UNCHANGED <<EditsMade, BranchState, BranchContent>>
         /\ CopiesHeld' = [CopiesHeld EXCEPT ![h] = Requested(r)]
         /\ r.phase # "insert" => branches!GiveUp(h)
  <1>1. Revs' = Revs /\ Live' = Live /\ \A v \in Variants : SpanOf(v)' = SpanOf(v)
    BY DEF Revs, Live, SpanOf
  <1>p. AsSpans'
    BY HeldSpans, PTL
  <1>2. /\ BranchContent' = [v \in Variants |-> IF v \in Live' THEN SpanOf(v)' ELSE {}]
      /\ CopiesHeld' = [g \in Handlers |-> Requested(req[g])']
    BY <1>p DEF AsSpans
  <1>3. BranchContent' = BranchContent
    BY <1>1, <1>2, HeldSpans DEF AsSpans
  <1>4. EditsMade' = EditsMade /\ BranchState' = BranchState
    BY <1>1 DEF EditsMade, BranchState
  <1>5. \A g \in Handlers : Requested(req[g])' = IF g = h THEN Requested(r)
                                                     ELSE Requested(req[g])
    BY DEF Requested, IInv, TypeOK
  <1>6. CopiesHeld' = [CopiesHeld EXCEPT ![h] = Requested(r)]
    BY <1>2, <1>5, HeldSpans DEF AsSpans
  <1>7. r.phase # "insert" => branches!GiveUp(h)
    BY <1>3, <1>4, <1>6 DEF branches!GiveUp, Requested
  <1>8. QED
    BY <1>3, <1>4, <1>6, <1>7

\* A step of the abstract service that is one of a client's.
LEMMA ClientSteps ==
  ASSUME NEW h \in Handlers,
         \/ branches!GiveUp(h) \/ branches!CopyNothing(h)
         \/ \E v \in Variants : branches!Copy(h, v) \/ branches!Open(h, v)
  PROVE  branches!Next
  BY DEF branches!Next

\* A request that ends without a write gives up what it has copied.
LEMMA EndGivesUp ==
  ASSUME IInv, IInv', UNCHANGED <<rev, var>>, NEW h \in Handlers, End(h)
  PROVE  branches!Next
  <1>1. req' = [req EXCEPT ![h] = Idle] /\ Idle.phase # "insert"
    BY DEF End, Idle
  <1> HIDE DEF Idle
  <1>2. branches!GiveUp(h)
    BY <1>1, RequestCopies
  <1>3. QED
    BY <1>2, ClientSteps

\* A fork copies the branch of its source, or begins with nothing.
LEMMA ForkCopies ==
  ASSUME IInv, IInv', NEW h \in Handlers, NEW v \in Variants, NEW from \in 0..Len(rev),
         Fork(h, v, from)
  PROVE  branches!Next
  <1> DEFINE b == IF from = 0 THEN var[v].base ELSE from
             t == IF from = 0 THEN var[v].head ELSE from
             r == [Idle EXCEPT !.phase = "insert", !.base = b, !.tip = t]
  <1>1. v \in Live /\ req' = [req EXCEPT ![h] = r] /\ UNCHANGED <<rev, var>>
    BY DEF Fork, Begin
  <1>2. Requested(r) = {Span(rev, b, t)}
    BY DEF Idle, Requested
  <1> HIDE DEF r
  <1>3. /\ UNCHANGED <<EditsMade, BranchState, BranchContent>>
        /\ CopiesHeld' = [CopiesHeld EXCEPT ![h] = {Span(rev, b, t)}]
    BY <1>1, <1>2, RequestCopies
  <1>4. CASE from = 0
    <2>1. BranchContent[v] = Span(rev, b, t)
      BY <1>1, <1>4, HeldSpans DEF AsSpans, SpanOf
    <2>2. BranchState[v] = "open"
      BY <1>1 DEF BranchState, Live, Stored
    <2>3. branches!Copy(h, v)
      BY <1>3, <2>1, <2>2 DEF branches!Copy
    <2>4. QED
      BY <2>3, ClientSteps
  <1>5. CASE from # 0
    <2>1. Span(rev, b, t) = {}
      BY <1>5, SpanEmpty DEF IInv
    <2>2. branches!CopyNothing(h)
      BY <1>3, <2>1 DEF branches!CopyNothing
    <2>3. QED
      BY <2>2, ClientSteps
  <1>6. QED
    BY <1>4, <1>5

\* A variant seeded from the canonical tip begins with nothing.
LEMMA ReadTipCopies ==
  ASSUME IInv, IInv', NEW h \in Handlers, ReadTip(h)
  PROVE  branches!Next
  <1> DEFINE r == req[h]
  <1>1. PICK tip \in 0..Len(rev) :
          req' = [req EXCEPT ![h] =
               IF ~Accepts(r.op, r.base, tip) THEN Idle
               ELSE [r EXCEPT !.phase = IF r.op = "seed" THEN "insert" ELSE "write",
                              !.base = IF r.op = "seed" THEN tip ELSE r.base,
                              !.op = "none", !.owned = {}, !.tip = tip]]
    BY DEF ReadTip
  <1> DEFINE s == [r EXCEPT !.phase = IF r.op = "seed" THEN "insert" ELSE "write",
                            !.base = IF r.op = "seed" THEN tip ELSE r.base,
                            !.op = "none", !.owned = {}, !.tip = tip]
  <1>2. r \in Request /\ UNCHANGED <<rev, var>>
    BY DEF ReadTip, IInv, TypeOK
  <1>3. s.phase = "insert" => s.base = tip /\ s.tip = tip
    BY <1>2 DEF Request
  <1>4. req' = [req EXCEPT ![h] = Idle] \/ req' = [req EXCEPT ![h] = s]
    BY <1>1
  <1>5. Idle.phase # "insert"
    BY DEF Idle
  <1> HIDE DEF s
  <1>6. ASSUME NEW q, req' = [req EXCEPT ![h] = q], q.phase # "insert" PROVE branches!Next
    BY <1>2, <1>6, RequestCopies, ClientSteps
  <1>7. ASSUME req' = [req EXCEPT ![h] = s], s.phase = "insert" PROVE branches!Next
    <2>1. Requested(s) = {{}}
      BY <1>3, <1>7, SpanEmpty DEF Requested, IInv
    <2>2. branches!CopyNothing(h)
      BY <1>2, <1>7, <2>1, RequestCopies DEF branches!CopyNothing
    <2>3. QED
      BY <2>2, ClientSteps
  <1>8. QED
    BY <1>4, <1>5, <1>6, <1>7

\* What an appended revision makes of the edits.
LEMMA EditAdded ==
  ASSUME IInv, IInv', BInv, NEW x \in Revision, rev' = Append(rev, x), Unused(x.cmd)
  PROVE  branches!Make(Len(rev) + 1, x.cmd, x.by) /\ Len(rev) + 1 \in 1..MaxRevs
  <1> DEFINE n == Len(rev) + 1
  <1>1. /\ Revs' = Revs \cup {n} /\ n \notin Revs /\ rev'[n] = x
        /\ \A r \in Revs : rev'[r] = rev[r]
    BY BranchesGrow
  <1>2. n \in 1..MaxRevs
    <2>1. Len(rev) \in Nat /\ n \in 1..Len(rev') /\ Len(rev') <= MaxRevs /\ MaxRevs \in Nat
      BY <1>1, LenNat, SceneAssumption DEF IInv, TypeOK, Revs
    <2>2. Len(rev') \in Nat
      BY LenProperties DEF IInv, TypeOK
    <2>3. QED
      BY <2>1, <2>2
  <1> HIDE DEF n
  <1>3. EditsMade' = [f \in Revs \cup {n} |-> IF f = n THEN [id |-> x.cmd, on |-> x.by]
                                               ELSE EditsMade[f]]
    BY <1>1 DEF EditsMade
  <1>4. DOMAIN EditsMade = Revs /\ \A f \in Revs : EditsMade[f].id = rev[f].cmd
    BY DEF EditsMade
  <1>5. x.cmd # None => \A f \in Revs : EditsMade[f].id # x.cmd
    BY <1>4 DEF Unused, Used
  <1>6. branches!Make(n, x.cmd, x.by)
    BY <1>1, <1>3, <1>4, <1>5 DEF branches!Make
  <1>7. QED
    BY <1>2, <1>6 DEF n

\* A canonical revision is an edit beside all branches.
LEMMA CanonicalWrites ==
  ASSUME IInv, IInv', BInv, NEW h \in Handlers, WriteCanonical(h)
  PROVE  branches!Next
  <1> DEFINE r == req[h]
             x == [parent |-> r.tip, cmd |-> r.cmd, based |-> r.base, by |-> r.variant]
  <1>1. CASE ~Unused(r.cmd)
    BY <1>1, EndGivesUp DEF WriteCanonical
  <1>2. CASE Unused(r.cmd)
    <2>1. r \in Request /\ r.variant = None /\ r.phase = "write"
      BY DEF IInv, TypeOK, WriteCanonical
    <2>2. x \in Revision /\ x.by = None /\ x.cmd = r.cmd /\ r.cmd \in Commands \cup {None}
      BY <2>1 DEF Request, Revision
    <2>3. rev' = Append(rev, x) /\ var' = var /\ req' = [req EXCEPT ![h] = Idle]
      BY <1>2 DEF WriteCanonical, AppendRevision, End
    <2> HIDE DEF x, r
    <2>4. \A b, t : t \in 0..Len(rev) => Span(rev', b, t) = Span(rev, b, t)
      BY <2>2, <2>3, BranchesGrow
    <2>5. branches!Make(Len(rev) + 1, r.cmd, None) /\ Len(rev) + 1 \in 1..MaxRevs
      BY <1>2, <2>2, <2>3, EditAdded
    <2>p. AsSpans'
      BY HeldSpans, PTL
    <2>6. /\ BranchContent' = [v \in Variants |-> IF v \in Live' THEN SpanOf(v)' ELSE {}]
        /\ CopiesHeld' = [g \in Handlers |-> Requested(req[g])']
      BY <2>p DEF AsSpans
    <2>7. Live' = Live /\ \A v \in Live : SpanOf(v)' = SpanOf(v)
      BY <2>3, <2>4, PointsExist DEF SpanOf, Live
    <2>8. \A g \in Handlers : Requested(req[g])' = Requested(req[g])
      <3>1. \A g \in Handlers : req'[g] = IF g = h THEN Idle ELSE req[g]
        BY <2>3 DEF IInv, TypeOK
      <3>2. req[h].phase # "insert" /\ Idle.phase # "insert"
        BY <2>1 DEF r, Idle
      <3>3. QED
        BY <2>4, <3>1, <3>2, PointsExist DEF Requested
    <2>9. UNCHANGED <<BranchState, BranchContent, CopiesHeld>>
      BY <2>3, <2>6, <2>7, <2>8, HeldSpans DEF AsSpans, BranchState
    <2>10. branches!Write(Len(rev) + 1, r.cmd)
      BY <2>5, <2>9 DEF branches!Write
    <2>11. QED
      BY <2>2, <2>5, <2>10 DEF branches!Next
  <1>3. QED
    BY <1>1, <1>2

\* An append that finds the head it expects adds one edit to its branch.
LEMMA AppendWrites ==
  ASSUME IInv, IInv', BInv, NEW h \in Handlers, WriteAppend(h)
  PROVE  branches!Next
  <1> DEFINE r == req[h]
             n == Len(rev) + 1
  <1>1. CASE ~(Unused(r.cmd) /\ r.variant \in Live /\ var[r.variant].head = r.base)
    BY <1>1, EndGivesUp DEF WriteAppend
  <1>2. ASSUME NEW w \in Variants, w = r.variant, Unused(r.cmd), w \in Live, var[w].head = r.base
        PROVE  branches!Next
    <2> DEFINE x == [parent |-> r.tip, cmd |-> r.cmd, based |-> r.base, by |-> w]
    <2>1. /\ r \in Request /\ w \in Live /\ r.tip = var[w].head /\ w # None /\ w \in Variants
          /\ r.phase = "write"
      BY <1>2, SceneAssumption DEF IInv, TypeOK, WriteAppend, ReadOK, Live
    <2>2. /\ x \in Revision /\ x.by = w /\ x.parent = var[w].head /\ x.cmd = r.cmd
          /\ r.cmd \in Commands \cup {None}
      BY <2>1 DEF Request, Revision
    <2>3. /\ rev' = Append(rev, x) /\ req' = [req EXCEPT ![h] = Idle]
          /\ var' = [var EXCEPT ![w].head = n]
      BY <1>2 DEF WriteAppend, AppendRevision, End
    <2> HIDE DEF x, r
    <2>4. /\ n \notin Revs
          /\ \A b, t : t \in 0..Len(rev) => Span(rev', b, t) = Span(rev, b, t)
          /\ \A b : Span(rev', b, n) = IF n = b THEN {} ELSE {n} \cup Span(rev', b, x.parent)
      BY <2>1, <2>2, <2>3, BranchesGrow
    <2>5. /\ Live' = Live /\ var'[w].head = n /\ var'[w].base = var[w].base
          /\ \A v \in Variants : var'[v].status = var[v].status
          /\ \A v \in Live : v # w => var'[v] = var[v]
      BY <2>1, <2>3 DEF IInv, TypeOK, Live, Variant
    <2>6. \A v \in Live : v # w => SpanOf(v)' = SpanOf(v)
      BY <2>4, <2>5, PointsExist DEF SpanOf
    <2>7. SpanOf(w)' = SpanOf(w) \cup {n}
      <3>1. n # var[w].base /\ var[w].head \in 0..Len(rev)
        BY <2>1, <2>4, PointsExist
      <3> HIDE DEF n
      <3>2. Span(rev', var[w].base, var[w].head) = Span(rev, var[w].base, var[w].head)
        BY <2>4, <3>1
      <3>3. Span(rev', var[w].base, n) = {n} \cup Span(rev', var[w].base, var[w].head)
        BY <2>2, <2>4, <3>1
      <3>4. QED
        BY <2>5, <3>2, <3>3 DEF SpanOf
    <2>8. branches!Make(n, r.cmd, w) /\ n \in 1..MaxRevs
      BY <1>2, <2>2, <2>3, EditAdded
    <2> HIDE DEF n
    <2>p. AsSpans'
      BY HeldSpans, PTL
    <2>9. /\ BranchContent' = [v \in Variants |-> IF v \in Live' THEN SpanOf(v)' ELSE {}]
        /\ CopiesHeld' = [g \in Handlers |-> Requested(req[g])']
      BY <2>p DEF AsSpans
    <2>10. BranchContent' = [BranchContent EXCEPT ![w] = @ \cup {n}]
      BY <2>1, <2>5, <2>6, <2>7, <2>9, HeldSpans DEF AsSpans
    <2>11. \A g \in Handlers : Requested(req[g])' = Requested(req[g])
      <3>1. \A g \in Handlers : req'[g] = IF g = h THEN Idle ELSE req[g]
        BY <2>3 DEF IInv, TypeOK
      <3>2. req[h].phase # "insert" /\ Idle.phase # "insert"
        BY <2>1 DEF r, Idle
      <3>3. QED
        BY <2>4, <3>1, <3>2, PointsExist DEF Requested
    <2>12. UNCHANGED <<BranchState, CopiesHeld>>
      BY <2>5, <2>9, <2>11, HeldSpans DEF AsSpans, BranchState
    <2>13. BranchState[w] = "open"
      BY <2>1 DEF BranchState, Live, Stored
    <2>14. branches!Append(w, n, r.cmd)
      BY <2>8, <2>10, <2>12, <2>13 DEF branches!Append
    <2>15. QED
      BY <2>1, <2>2, <2>8, <2>14 DEF branches!Next
  <1>3. QED
    BY <1>1, <1>2 DEF Live

\* A new variant opens a branch with what its request has copied.
LEMMA InsertOpens ==
  ASSUME IInv, IInv', NEW h \in Handlers, InsertVariant(h)
  PROVE  branches!Next
  <1> DEFINE r == req[h]
  <1>1. PICK w \in Variants :
          /\ var[w].status = "absent"
          /\ var' = [var EXCEPT ![w] = [status |-> "draft", base |-> r.base, head |-> r.tip]]
    BY DEF InsertVariant
  <1>2. /\ r.phase = "insert" /\ rev' = rev /\ req' = [req EXCEPT ![h] = Idle]
    BY DEF InsertVariant, End
  <1>3. /\ Live' = Live \cup {w} /\ w \notin Live
        /\ var'[w] = [status |-> "draft", base |-> r.base, head |-> r.tip]
        /\ \A v \in Variants : v # w => var'[v] = var[v]
    BY <1>1 DEF IInv, TypeOK, Live, Variant, Stored
  <1>4. EditsMade' = EditsMade
    BY <1>2 DEF EditsMade, Revs
  <1>5. BranchState[w] = "unborn" /\ BranchState' = [BranchState EXCEPT ![w] = "open"]
    <2>1. BranchState[w] = "unborn"
      BY <1>1 DEF BranchState
    <2>2. \A v \in Variants : BranchState'[v] = IF v = w THEN "open" ELSE BranchState[v]
      BY <1>3 DEF BranchState, Stored
    <2>3. BranchState' = [v \in Variants |-> BranchState'[v]]
      BY DEF BranchState
    <2>4. BranchState = [v \in Variants |-> BranchState[v]]
      BY DEF BranchState
    <2>5. QED
      BY <2>1, <2>2, <2>3, <2>4
  <1>6. SpanOf(w)' = Span(rev, r.base, r.tip) /\ \A v \in Live : SpanOf(v)' = SpanOf(v)
    BY <1>2, <1>3 DEF SpanOf, Live
  <1>p. AsSpans'
    BY HeldSpans, PTL
  <1>7. /\ BranchContent' = [v \in Variants |-> IF v \in Live' THEN SpanOf(v)' ELSE {}]
      /\ CopiesHeld' = [g \in Handlers |-> Requested(req[g])']
    BY <1>p DEF AsSpans
  <1>8. BranchContent' = [BranchContent EXCEPT ![w] = Span(rev, r.base, r.tip)]
    BY <1>3, <1>6, <1>7, HeldSpans DEF AsSpans
  <1>9. \A g \in Handlers : Requested(req[g])' = IF g = h THEN {} ELSE Requested(req[g])
    BY <1>2 DEF Requested, IInv, TypeOK, Idle
  <1>10. CopiesHeld' = [CopiesHeld EXCEPT ![h] = {}] /\ CopiesHeld[h] = {Span(rev, r.base, r.tip)}
    <2>1. CopiesHeld = [g \in Handlers |-> Requested(req[g])]
      BY HeldSpans DEF AsSpans
    <2>2. Requested(r) = {Span(rev, r.base, r.tip)}
      BY <1>2 DEF Requested
    <2>3. CopiesHeld' = [CopiesHeld EXCEPT ![h] = {}]
      BY <1>7, <1>9, <2>1
    <2>4. QED
      BY <2>1, <2>2, <2>3
  <1>11. branches!Open(h, w)
    BY <1>4, <1>5, <1>8, <1>10 DEF branches!Open
  <1>12. QED
    BY <1>11, ClientSteps

\* A change of status keeps open branches open; a deletion closes one.
LEMMA StatusCloses ==
  ASSUME IInv, IInv', NEW h \in Handlers, WriteStatus(h) \/ WriteDelete(h)
  PROVE  [branches!Next]_<<EditsMade, BranchState, BranchContent, CopiesHeld>>
  <1> DEFINE r == req[h]
  <1>1. UNCHANGED rev /\ req' = [req EXCEPT ![h] = Idle] /\ r.phase \in {"status", "delete"}
    BY DEF WriteStatus, WriteDelete, End
  <1>2. EditsMade' = EditsMade
    BY <1>1 DEF EditsMade, Revs
  <1>p. AsSpans'
    BY HeldSpans, PTL
  <1>3. /\ BranchContent' = [v \in Variants |-> IF v \in Live' THEN SpanOf(v)' ELSE {}]
      /\ CopiesHeld' = [g \in Handlers |-> Requested(req[g])']
    BY <1>p DEF AsSpans
  <1>4. \A g \in Handlers : Requested(req[g])' = Requested(req[g])
    BY <1>1 DEF Requested, IInv, TypeOK, Idle
  <1>5. CopiesHeld' = CopiesHeld
    BY <1>3, <1>4, HeldSpans DEF AsSpans
  <1>6. CASE WriteDelete(h)
    <2> DEFINE w == r.variant
    <2>1. w \in Variants /\ var' = [var EXCEPT ![w].status = "deleted"]
      BY <1>6 DEF WriteDelete, IInv, ReadOK
    <2>2. /\ Live' = Live \ {w} /\ var'[w].status = "deleted"
          /\ \A v \in Variants : v # w => var'[v] = var[v]
      BY <2>1 DEF IInv, TypeOK, Live, Variant, Stored
    <2>3. \A v \in Live' : SpanOf(v)' = SpanOf(v)
      BY <1>1, <2>2 DEF SpanOf, Live
    <2>4. BranchContent' = [BranchContent EXCEPT ![w] = {}]
      BY <1>3, <2>1, <2>2, <2>3, HeldSpans DEF AsSpans
    <2>5. BranchState' = [BranchState EXCEPT ![w] = "closed"]
      BY <2>1, <2>2 DEF BranchState
    <2>6. BranchState[w] # "unborn"
      BY <1>6, <2>1 DEF BranchState, WriteDelete, IInv, ReadOK
    <2>7. branches!Close(w)
      BY <1>2, <1>5, <2>4, <2>5, <2>6 DEF branches!Close
    <2>8. QED
      BY <2>1, <2>7 DEF branches!Next
  <1>7. CASE WriteStatus(h)
    <2>1. /\ \A v \in Variants : /\ var'[v].base = var[v].base /\ var'[v].head = var[v].head
                                 /\ \/ var'[v].status = var[v].status
                                    \/ var'[v].status \in Stored /\ var[v].status \in Stored
      BY <1>7 DEF WriteStatus, IInv, TypeOK, ReadOK, Variant, Live, Changed
    <2>2. Live' = Live /\ \A v \in Variants : SpanOf(v)' = SpanOf(v)
      BY <1>1, <2>1 DEF Live, SpanOf
    <2>3. BranchContent' = BranchContent
      BY <1>3, <2>2, HeldSpans DEF AsSpans
    <2>4. BranchState' = BranchState
      BY <2>1 DEF BranchState, Stored
    <2>5. QED
      BY <1>2, <1>5, <2>3, <2>4
  <1>8. QED
    BY <1>6, <1>7

\* The variants implement the branch service for any number of revisions, variants and
\* overlapping requests: branches only gain new edits of their own, forks start with
\* what was read, and no request changes a branch it does not name.
THEOREM BranchRefinement == Spec => ImplementsBranches
  <1>1. Init => branches!Init
    <2> SUFFICES ASSUME Init PROVE branches!Init
      OBVIOUS
    <2>1. Revs = {} /\ Live = {}
      BY DEF Init, Revs, Live, Stored
    <2>2. EditsMade = [e \in {} |-> None]
      BY <2>1 DEF EditsMade
    <2>3. BranchState = [v \in Variants |-> "unborn"] /\ BranchContent = [v \in Variants |-> {}]
      BY <2>1 DEF Init, BranchState, BranchContent
    <2>4. CopiesHeld = [h \in Handlers |-> {}]
      BY DEF Init, CopiesHeld, Idle
    <2>5. QED
      BY <2>2, <2>3, <2>4 DEF branches!Init
  <1>2. ASSUME IInv, IInv', BInv, [Next]_vars
        PROVE  [branches!Next]_<<EditsMade, BranchState, BranchContent, CopiesHeld>>
    <2>1. CASE UNCHANGED vars
      <3>1. /\ Revs' = Revs /\ Live' = Live /\ \A v \in Variants : Segment(v)' = Segment(v)
            /\ \A h \in Handlers : Walked(req[h].base, req[h].tip)' = Walked(req[h].base, req[h].tip)
        BY <2>1 DEF vars, Revs, Live, Segment, Walked, Stored
      <3>2. QED
        BY <2>1, <3>1 DEF vars, EditsMade, BranchState, BranchContent, CopiesHeld
    <2>2. ASSUME NEW h \in Handlers, NEW r, Begin(h, r), r.phase # "insert" PROVE branches!Next
      BY <1>2, <2>2, RequestCopies, ClientSteps DEF Begin
    <2>3. ASSUME NEW h \in Handlers, Canonical(h) PROVE branches!Next
      <3>1. ASSUME NEW op \in Ops \ {"none"}, NEW base, NEW cmd, Walk(h, op, base, cmd)
            PROVE  branches!Next
        <4> DEFINE r == [Idle EXCEPT !.phase = "walk", !.op = op, !.base = base, !.cmd = cmd,
                                     !.owned = Owned]
        <4>1. Begin(h, r) /\ r.phase # "insert"
          BY <3>1 DEF Walk, Idle
        <4> HIDE DEF r
        <4>2. QED
          BY <2>2, <4>1
      <3>2. QED
        BY <1>2, <2>3, <3>1, ReadTipCopies, CanonicalWrites DEF Canonical
    <2>4. ASSUME NEW h \in Handlers, Branch(h) PROVE branches!Next
      <3>1. ASSUME NEW v, NEW base, NEW cmd, BeginAppend(h, v, base, cmd) PROVE branches!Next
        <4> DEFINE r == [Idle EXCEPT !.phase = "write", !.variant = v, !.cmd = cmd, !.base = base,
                                     !.tip = base]
        <4>1. Begin(h, r) /\ r.phase # "insert"
          BY <3>1 DEF BeginAppend, Idle
        <4> HIDE DEF r
        <4>2. QED
          BY <2>2, <4>1
      <3>2. QED
        BY <1>2, <2>4, <3>1, AppendWrites DEF Branch
    <2>5. ASSUME NEW h \in Handlers, Lifecycle(h)
          PROVE  [branches!Next]_<<EditsMade, BranchState, BranchContent, CopiesHeld>>
      <3>1. ASSUME NEW s, SetStatus(h, s) PROVE branches!Next
        <4> DEFINE r == [Idle EXCEPT !.phase = "status", !.seen = StatusNow, !.status = s]
        <4>1. Begin(h, r) /\ r.phase # "insert"
          BY <3>1 DEF SetStatus, Idle
        <4> HIDE DEF r
        <4>2. QED
          BY <2>2, <4>1
      <3>2. ASSUME NEW v, BeginDelete(h, v) PROVE branches!Next
        <4> DEFINE r == [Idle EXCEPT !.phase = "delete", !.variant = v]
        <4>1. Begin(h, r) /\ r.phase # "insert"
          BY <3>2 DEF BeginDelete, Idle
        <4> HIDE DEF r
        <4>2. QED
          BY <2>2, <4>1
      <3>3. QED
        BY <1>2, <2>5, <3>1, <3>2, ForkCopies, InsertOpens, StatusCloses
        DEF Lifecycle, Approve, Patch
    <2>6. ASSUME NEW h \in Handlers, Abort(h) PROVE branches!Next
      BY <1>2, <2>6, EndGivesUp DEF Abort
    <2>7. QED
      BY <1>2, <2>1, <2>3, <2>4, <2>5, <2>6 DEF Next
  <1>3. QED
    BY <1>1, <1>2, Inductive, BranchInvariance, PTL DEF Spec, ImplementsBranches, branches!Spec
=============================================================================
