---------------------------- MODULE ServiceProofs ----------------------------
(***************************************************************************)
(* The command engine, the budget, the sessions and the schema: components *)
(* that share no state, each with its results in a section of its own.     *)
(***************************************************************************)
EXTENDS SceneCommands, Catalogue, Sessions, Schema, WellFoundedInduction, FiniteSetTheorems, TLAPS

-----------------------------------------------------------------------------
(***************************************************************************)
(* What the command engine guards, for any number of entities and values.  *)
(*                                                                         *)
(* The argument.  A command changes one field of one entity, takes one out *)
(* of the scene or puts a new one in; so for each operation it is enough   *)
(* to say which fields it leaves alone (Leaves) and to compare its guard   *)
(* with what the property asks of the others.                              *)
(***************************************************************************)

Fields == {"state", "intent", "locks", "material", "color", "place", "ref", "light"}

\* entity e is changed in field f only, everybody else not at all
Leaves(e, f) ==
  /\ scene' \in [Present -> Entity]
  /\ \A x \in Present \ {e} : scene'[x] = scene[x]
  /\ \A g \in Fields \ {f} : scene'[e][g] = scene[e][g]

\* What an assignment to one field of an entity leaves alone.
LEMMA OneField ==
  ASSUME Entities, NEW e \in Present, NEW f \in Fields, NEW v,
         [scene[e] EXCEPT ![f] = v] \in Entity,
         scene' = [scene EXCEPT ![e] = [@ EXCEPT ![f] = v]]
  PROVE  Leaves(e, f) /\ scene'[e][f] = v
  <1>1. scene \in [Present -> Entity] /\ scene[e] \in Entity
    BY DEF Entities
  <1>2. DOMAIN scene[e] = Fields
    BY <1>1 DEF Entity, Fields
  <1>3. scene'[e] = [scene[e] EXCEPT ![f] = v]
    BY <1>1
  <1>4. \A x \in Present \ {e} : scene'[x] = scene[x]
    BY <1>1
  <1>5. scene' \in [Present -> Entity]
    BY <1>1
  <1>6. \A g \in Fields \ {f} : scene'[e][g] = scene[e][g]
    BY <1>2, <1>3
  <1>7. scene'[e][f] = v
    BY <1>2, <1>3
  <1>8. QED
    BY <1>4, <1>5, <1>6, <1>7 DEF Leaves

\* A change of one field is guarded if what locks and intents say of this field is.
LEMMA ChangeGuarded ==
  ASSUME Entities, NEW e \in Present, NEW f \in Fields, Leaves(e, f),
         f \in {"material", "color"} => ~Locked(e, {"material"}),
         f = "place" => ~Locked(e, {"transform", "geometry"}),
         f = "ref" => ~Locked(e, {"existence", "geometry"}) /\ scene[e].intent # "keep",
         f \in {"state", "intent"} => (Slab(scene', e) => Slab(scene, e))
  PROVE  Entities' /\ Guarded
  <1>1. DOMAIN scene' = Present
    BY DEF Leaves
  <1>2. Entities'
    BY <1>1 DEF Leaves, Entities, Present
  <1>3. ASSUME NEW x \in Present \ {e}
        PROVE  scene'[x] = scene[x] /\ (Slab(scene', x) => Slab(scene, x))
    BY DEF Leaves, Slab
  <1>4. f \notin {"state", "intent"} => (Slab(scene', e) => Slab(scene, e))
    BY DEF Leaves, Slab, Fields
  <1>5. /\ f # "ref" => scene'[e].ref = scene[e].ref
        /\ f # "material" => scene'[e].material = scene[e].material
        /\ f # "color" => scene'[e].color = scene[e].color
        /\ f # "place" => scene'[e].place = scene[e].place
    BY DEF Leaves, Fields
  <1>6. Guarded
    BY <1>1, <1>3, <1>4, <1>5 DEF Guarded
  <1>7. QED
    BY <1>2, <1>6

-----------------------------------------------------------------------------
(* The operations. *)

\* The look at the intent keeps the state from making a slated part of the shell ...
LEMMA SetStateOK ==
  ASSUME Entities, NEW e \in Ids, NEW state \in States, SetState(e, state)
  PROVE  Entities' /\ Guarded
  <1>1. e \in Present /\ scene[e] \in Entity
    BY DEF SetState, Entities
  <1>2. [scene[e] EXCEPT !.state = state] \in Entity
    BY <1>1 DEF Entity
  <1>3. Leaves(e, "state") /\ scene'[e].state = state
    BY <1>1, <1>2, OneField DEF SetState, Fields
  <1>4. Slab(scene', e) => Slab(scene, e)
    BY <1>3 DEF SetState, Slab, Leaves, Fields
  <1>5. QED
    BY <1>1, <1>3, <1>4, ChangeGuarded DEF SetState, Fields

\* ... and the look at the state keeps the intent from it.
LEMMA SetIntentOK ==
  ASSUME Entities, NEW e \in Ids, NEW intent \in Intents, SetIntent(e, intent)
  PROVE  Entities' /\ Guarded
  <1>1. e \in Present /\ scene[e] \in Entity
    BY DEF SetIntent, Entities
  <1>2. [scene[e] EXCEPT !.intent = intent] \in Entity
    BY <1>1 DEF Entity
  <1>3. Leaves(e, "intent") /\ scene'[e].intent = intent
    BY <1>1, <1>2, OneField DEF SetIntent, Fields
  <1>4. Slab(scene', e) => Slab(scene, e)
    BY <1>3 DEF SetIntent, Slab, Leaves, Fields
  <1>5. QED
    BY <1>1, <1>3, <1>4, ChangeGuarded DEF SetIntent, Fields

\* Locks guard no locks, and no field depends on them.
LEMMA SetLocksOK ==
  ASSUME Entities, NEW e \in Ids, NEW locks \in SUBSET Locks, SetLocks(e, locks)
  PROVE  Entities' /\ Guarded
  <1>1. e \in Present /\ scene[e] \in Entity
    BY DEF SetLocks, Entities
  <1>2. [scene[e] EXCEPT !.locks = locks] \in Entity
    BY <1>1 DEF Entity
  <1>3. Leaves(e, "locks") /\ scene'[e].locks = locks
    BY <1>1, <1>2, OneField DEF SetLocks, Fields
  <1>4. QED
    BY <1>1, <1>3, ChangeGuarded DEF SetLocks, Fields

\* The material is guarded by its own lock
LEMMA SetMaterialOK ==
  ASSUME Entities, NEW e \in Ids, NEW v \in Values, SetMaterial(e, v)
  PROVE  Entities' /\ Guarded
  <1>1. e \in Present /\ scene[e] \in Entity
    BY DEF SetMaterial, Entities
  <1>2. [scene[e] EXCEPT !.material = v] \in Entity
    BY <1>1 DEF Entity
  <1>3. Leaves(e, "material") /\ scene'[e].material = v
    BY <1>1, <1>2, OneField DEF SetMaterial, Fields
  <1>4. QED
    BY <1>1, <1>3, ChangeGuarded DEF SetMaterial, Fields

\* and so is the colour;
LEMMA SetColorOK ==
  ASSUME Entities, NEW e \in Ids, NEW v \in Values, SetColor(e, v)
  PROVE  Entities' /\ Guarded
  <1>1. e \in Present /\ scene[e] \in Entity
    BY DEF SetColor, Entities
  <1>2. [scene[e] EXCEPT !.color = v] \in Entity
    BY <1>1 DEF Entity
  <1>3. Leaves(e, "color") /\ scene'[e].color = v
    BY <1>1, <1>2, OneField DEF SetColor, Fields
  <1>4. QED
    BY <1>1, <1>3, ChangeGuarded DEF SetColor, Fields

\* the pose by that of the transform or the geometry;
LEMMA MoveObjectOK ==
  ASSUME Entities, NEW e \in Ids, NEW v \in Values, MoveObject(e, v)
  PROVE  Entities' /\ Guarded
  <1>1. e \in Present /\ scene[e] \in Entity
    BY DEF MoveObject, Entities
  <1>2. [scene[e] EXCEPT !.place = v] \in Entity
    BY <1>1 DEF Entity
  <1>3. Leaves(e, "place") /\ scene'[e].place = v
    BY <1>1, <1>2, OneField DEF MoveObject, Fields
  <1>4. QED
    BY <1>1, <1>3, ChangeGuarded DEF MoveObject, Fields

\* the reference by those of existence and geometry and by the intent.
LEMMA ReplaceFromReferenceOK ==
  ASSUME Entities, NEW e \in Ids, NEW v \in Values, ReplaceFromReference(e, v)
  PROVE  Entities' /\ Guarded
  <1>1. e \in Present /\ scene[e] \in Entity
    BY DEF ReplaceFromReference, Entities
  <1>2. [scene[e] EXCEPT !.ref = v] \in Entity
    BY <1>1 DEF Entity
  <1>3. Leaves(e, "ref") /\ scene'[e].ref = v
    BY <1>1, <1>2, OneField DEF ReplaceFromReference, Fields
  <1>4. QED
    BY <1>1, <1>3, ChangeGuarded DEF ReplaceFromReference, Fields

\* Nothing guards the intent of a light.
LEMMA SetLightIntentOK ==
  ASSUME Entities, NEW e \in Ids, NEW v \in Values, SetLightIntent(e, v)
  PROVE  Entities' /\ Guarded
  <1>1. e \in Present /\ scene[e] \in Entity
    BY DEF SetLightIntent, Entities
  <1>2. [scene[e] EXCEPT !.light = v] \in Entity
    BY <1>1 DEF Entity
  <1>3. Leaves(e, "light") /\ scene'[e].light = v
    BY <1>1, <1>2, OneField DEF SetLightIntent, Fields
  <1>4. QED
    BY <1>1, <1>3, ChangeGuarded DEF SetLightIntent, Fields

\* What is new is not looked at, what was there stays as it is.
LEMMA AddObjectOK ==
  ASSUME Entities, NEW e \in Ids, NEW entity \in Offered, NEW says \in BOOLEAN,
         AddObject(e, entity, says)
  PROVE  Entities' /\ Guarded
  <1> DEFINE new == IF says THEN entity ELSE [entity EXCEPT !.state = "design"]
  <1>1. entity \in Entity
    BY SceneCommandsAssumption
  <1>2. new \in Entity
    BY <1>1 DEF Entity, States
  <1> HIDE DEF new
  <1>3. scene' = [x \in Present \cup {e} |-> IF x \in Present THEN scene[x] ELSE new]
    BY DEF AddObject, new
  <1>4. /\ DOMAIN scene' = Present \cup {e}
        /\ \A x \in Present : scene'[x] = scene[x]
    BY <1>3
  <1>5. scene' \in [Present \cup {e} -> Entity]
    BY <1>2, <1>3 DEF Entities
  <1>6. Entities'
    BY <1>4, <1>5 DEF Entities, Present
  <1>7. Guarded
    BY <1>4 DEF Guarded, Slab, Present
  <1>8. QED
    BY <1>6, <1>7

\* What is taken out has neither the locks nor the intent that would keep it.
LEMMA RemoveObjectOK ==
  ASSUME Entities, NEW e \in Ids, RemoveObject(e)
  PROVE  Entities' /\ Guarded
  <1>1. scene' = [x \in Present \ {e} |-> scene[x]]
    BY DEF RemoveObject
  <1>2. /\ DOMAIN scene' = Present \ {e}
        /\ \A x \in Present \ {e} : scene'[x] = scene[x]
    BY <1>1
  <1>3. scene' \in [Present \ {e} -> Entity]
    BY <1>1 DEF Entities
  <1>4. Entities'
    BY <1>2, <1>3 DEF Entities, Present
  <1>5. Guarded
    BY <1>2 DEF Guarded, Slab, RemoveObject
  <1>6. QED
    BY <1>4, <1>5

-----------------------------------------------------------------------------
(* Who sends them. *)

\* The tools of the agent.
LEMMA AgentChangeOK ==
  ASSUME Entities, NEW e \in Ids, AgentChange(e)
  PROVE  Entities' /\ Guarded
  BY AddObjectOK, SetStateOK, SetMaterialOK, SetColorOK, MoveObjectOK,
     ReplaceFromReferenceOK, SetLightIntentOK, RemoveObjectOK DEF AgentChange

\* Every operation but the acceptance of a deviation.
LEMMA OwnerChangeOK ==
  ASSUME Entities, NEW e \in Ids, OwnerChange(e)
  PROVE  Entities' /\ Guarded
  BY AgentChangeOK, SetIntentOK, SetLocksOK DEF OwnerChange

\* A command, or none.
LEMMA CommandStepOK ==
  ASSUME Entities, [CommandsNext]_commandVars
  PROVE  Entities' /\ [Guarded]_commandVars
  <1>1. CASE UNCHANGED commandVars
    BY <1>1 DEF commandVars, Entities, Present
  <1>2. CASE \E e \in Ids : OwnerChange(e)
    BY <1>2, OwnerChangeOK
  <1>3. CASE \E e \in Ids : AgentChange(e)
    BY <1>3, AgentChangeOK
  <1>4. CASE \E target, e \in Ids : AcceptChange(target, e)
    BY <1>4, OwnerChangeOK DEF AcceptChange
  <1>5. QED
    BY <1>1, <1>2, <1>3, <1>4 DEF CommandsNext

\* Entities keep their shape.
THEOREM EntitiesCorrect == CommandsSpec => []Entities
  <1>1. CommandsInit => Entities
    BY DEF CommandsInit, Entities, Present
  <1>2. Entities /\ [CommandsNext]_commandVars => Entities'
    BY CommandStepOK
  <1>3. QED
    BY <1>1, <1>2, PTL DEF CommandsSpec

\* What is locked or marked keep stays, whoever sends a command and through whatever
\* wrapper (apply_command).
THEOREM LocksRespected == CommandsSpec => LocksHold
  <1>1. Entities /\ [CommandsNext]_commandVars => [Guarded]_commandVars
    BY CommandStepOK
  <1>2. QED
    BY <1>1, EntitiesCorrect, PTL DEF CommandsSpec, LocksHold

-----------------------------------------------------------------------------
(***************************************************************************)
(* Amounts in a budget have a currency, for any number of editors, lines   *)
(* and products, if no two requests overlap.                               *)
(*                                                                         *)
(* The argument.  A request that begins while another is served is counted *)
(* as a collision.  Without one the only request that is served has loaded *)
(* the row as it still is when the row is written, so that the line        *)
(* becomes what the handler has checked.                                   *)
(***************************************************************************)

ItemFields == {"kind", "amount", "currency", "quantity", "takeoff"}

\* what the handlers see to before they write
Priced(row) == row.amount # Nothing => row.currency # Nothing

CatalogueShape ==
  /\ DOMAIN line = Lines /\ DOMAIN editing = Editors /\ collisions \in Nat
  /\ \A l \in Lines : line[l] # Nothing => DOMAIN line[l] = ItemFields

Alone == \A e, f \in Editors : e # f => editing[e] = Waiting \/ editing[f] = Waiting

\* a patch that waits to be written
Fresh(e) ==
  LET r == editing[e]
  IN r.pc = "patch" =>
       /\ r.on \in Lines /\ line[r.on] # Nothing /\ r.old = line[r.on]
       /\ DOMAIN r.new = ItemFields /\ Priced(r.new)

CatalogueInv ==
  /\ CatalogueShape
  /\ collisions = 0 =>
       /\ \A l \in Lines : line[l] # Nothing => Priced(line[l])
       /\ Alone
       /\ \A e \in Editors : Fresh(e)

-----------------------------------------------------------------------------
\* WithCurrency keeps a row a row and gives its amount a currency.
LEMMA CurrencyGiven ==
  ASSUME NEW row, DOMAIN row = ItemFields
  PROVE  DOMAIN WithCurrency(row) = ItemFields /\ Priced(WithCurrency(row))
  <1>1. CASE row.amount # Nothing /\ row.currency = Nothing
    <2>1. WithCurrency(row) = [row EXCEPT !.currency = "RUB"]
      BY <1>1 DEF WithCurrency, DefaultCurrency
    <2>2. DOMAIN WithCurrency(row) = ItemFields /\ WithCurrency(row).currency = "RUB"
      BY <2>1 DEF ItemFields
    <2>3. QED
      BY <2>2, CatalogueAssumption DEF Priced, Currencies
  <1>2. CASE ~(row.amount # Nothing /\ row.currency = Nothing)
    <2>1. WithCurrency(row) = row
      BY <1>2 DEF WithCurrency
    <2>2. QED
      BY <2>1, <1>2 DEF Priced
  <1>3. QED
    BY <1>1, <1>2

\* A request that begins is alone or counted.
LEMMA Asked ==
  ASSUME CatalogueInv, NEW e \in Editors, Ask(e)
  PROVE  /\ collisions' \in Nat
         /\ collisions' = 0 => /\ collisions = 0
                               /\ \A f \in Editors : editing[f] = Waiting
  BY DEF CatalogueInv, CatalogueShape, Ask

\* Requests that are done at once: the lines they leave are rows with a currency.
LEMMA AtOnce ==
  ASSUME CatalogueInv, NEW e \in Editors, Ask(e), editing' = editing, DOMAIN line' = Lines,
         \A l \in Lines : line'[l] # Nothing =>
           line'[l] = line[l] \/ (DOMAIN line'[l] = ItemFields /\ Priced(line'[l]))
  PROVE  CatalogueInv'
  <1>1. CatalogueShape'
    BY Asked DEF CatalogueInv, CatalogueShape
  <1>2. ASSUME collisions' = 0
        PROVE  /\ \A l \in Lines : line'[l] # Nothing => Priced(line'[l])
               /\ Alone' /\ \A f \in Editors : Fresh(f)'
    <2>1. collisions = 0 /\ \A f \in Editors : editing[f] = Waiting
      BY Asked, <1>2
    <2>2. \A f \in Editors : editing'[f].pc = "idle"
      BY <2>1 DEF Waiting
    <2>3. QED
      BY <2>1, <2>2 DEF CatalogueInv, Alone, Fresh
  <1>3. QED
    BY <1>1, <1>2 DEF CatalogueInv

LEMMA AddItemKeeps ==
  ASSUME CatalogueInv, NEW e \in Editors, NEW l \in Lines, NEW row \in Sent, AddItem(e, l, row)
  PROVE  CatalogueInv'
  <1>1. DOMAIN row = ItemFields
    BY CatalogueAssumption DEF BudgetItem, ItemFields
  <1>2. DOMAIN WithCurrency(row) = ItemFields /\ Priced(WithCurrency(row))
    BY CurrencyGiven, <1>1
  <1>3. /\ Ask(e) /\ editing' = editing /\ DOMAIN line' = Lines
        /\ line' = [line EXCEPT ![l] = WithCurrency(row)]
    BY DEF AddItem, CatalogueInv, CatalogueShape
  <1>4. \A k \in Lines : line'[k] = line[k] \/ line'[k] = WithCurrency(row)
    BY <1>3 DEF CatalogueInv, CatalogueShape
  <1>5. QED
    BY AtOnce, <1>2, <1>3, <1>4

\* Requests that go on: what they wait with, if it is a patch, is fresh.
LEMMA GoesOn ==
  ASSUME CatalogueInv, NEW e \in Editors, Ask(e), line' = line, DOMAIN editing' = Editors,
         \A f \in Editors \ {e} : editing'[f] = editing[f],
         collisions' = 0 => Fresh(e)'
  PROVE  CatalogueInv'
  <1>1. CatalogueShape'
    BY Asked DEF CatalogueInv, CatalogueShape
  <1>2. ASSUME collisions' = 0
        PROVE  /\ \A l \in Lines : line'[l] # Nothing => Priced(line'[l])
               /\ Alone' /\ \A f \in Editors : Fresh(f)'
    <2>1. collisions = 0 /\ \A f \in Editors : editing[f] = Waiting
      BY Asked, <1>2
    <2>2. \A f \in Editors \ {e} : editing'[f] = Waiting /\ editing'[f].pc = "idle"
      BY <2>1 DEF Waiting
    <2>3. \A f \in Editors : Fresh(f)'
      BY <1>2, <2>2 DEF Fresh
    <2>4. Alone'
      BY <2>2 DEF Alone
    <2>5. QED
      BY <2>1, <2>3, <2>4 DEF CatalogueInv
  <1>3. QED
    BY <1>1, <1>2 DEF CatalogueInv

LEMMA LoadItemKeeps ==
  ASSUME CatalogueInv, NEW e \in Editors, NEW l \in Lines, NEW patch, LoadItem(e, l, patch)
  PROVE  CatalogueInv'
  <1> DEFINE new == WithCurrency(Patched(line[l], patch))
  <1>1. DOMAIN Patched(line[l], patch) = ItemFields
    BY DEF LoadItem, Patched, CatalogueInv, CatalogueShape
  <1>2. DOMAIN new = ItemFields /\ Priced(new)
    BY <1>1, CurrencyGiven
  <1> HIDE DEF new
  <1>3. /\ Ask(e) /\ line' = line /\ line[l] # Nothing
        /\ editing' = [editing EXCEPT ![e] =
             [pc |-> "patch", on |-> l, old |-> line[l], new |-> new]]
    BY DEF LoadItem, new
  <1>4. /\ DOMAIN editing' = Editors /\ \A f \in Editors \ {e} : editing'[f] = editing[f]
        /\ editing'[e].on = l /\ editing'[e].old = line[l] /\ editing'[e].new = new
    BY <1>3 DEF CatalogueInv, CatalogueShape
  <1>5. Fresh(e)'
    BY <1>2, <1>3, <1>4 DEF Fresh
  <1>6. QED
    BY GoesOn, <1>3, <1>4, <1>5

LEMMA BeginReportKeeps ==
  ASSUME CatalogueInv, NEW e \in Editors, BeginReport(e)
  PROVE  CatalogueInv'
  <1>1. /\ Ask(e) /\ line' = line /\ DOMAIN editing' = Editors
        /\ \A f \in Editors \ {e} : editing'[f] = editing[f]
        /\ editing'[e].pc = "report"
    BY DEF BeginReport, CatalogueInv, CatalogueShape
  <1>2. Fresh(e)'
    BY <1>1 DEF Fresh
  <1>3. QED
    BY GoesOn, <1>1, <1>2

LEMMA WriteItemKeeps ==
  ASSUME CatalogueInv, NEW e \in Editors, WriteItem(e)
  PROVE  CatalogueInv'
  <1> DEFINE r == editing[e]
             written == [f \in DOMAIN line[r.on] |->
                           IF r.new[f] # r.old[f] THEN r.new[f] ELSE line[r.on][f]]
  <1>1. /\ r.pc = "patch" /\ collisions' = collisions
        /\ line' = IF line[r.on] = Nothing THEN line ELSE [line EXCEPT ![r.on] = written]
        /\ editing' = [editing EXCEPT ![e] = Waiting]
    BY DEF WriteItem
  <1>2. DOMAIN written = DOMAIN line[r.on]
    OBVIOUS
  <1>3. ASSUME collisions = 0
        PROVE  Priced(written)
    <2>1. Fresh(e)
      BY <1>3 DEF CatalogueInv
    <2>2. /\ r.old = line[r.on] /\ DOMAIN line[r.on] = ItemFields /\ Priced(r.new)
      BY <1>1, <2>1 DEF CatalogueInv, CatalogueShape, Fresh
    <2>3. written.amount = r.new.amount /\ written.currency = r.new.currency
      BY <2>2 DEF ItemFields
    <2>4. QED
      BY <2>2, <2>3 DEF Priced
  <1> HIDE DEF written
  <1>4. DOMAIN line' = Lines /\ DOMAIN editing' = Editors
    BY <1>1 DEF CatalogueInv, CatalogueShape
  <1>5. \A l \in Lines : line'[l] = line[l] \/ (l = r.on /\ line[l] # Nothing /\ line'[l] = written)
    BY <1>1 DEF CatalogueInv, CatalogueShape
  <1>6. CatalogueShape'
    BY <1>1, <1>2, <1>4, <1>5 DEF CatalogueInv, CatalogueShape
  <1>7. editing'[e] = Waiting /\ \A f \in Editors \ {e} : editing'[f] = editing[f]
    BY <1>1 DEF CatalogueInv, CatalogueShape
  <1>8. ASSUME collisions' = 0
        PROVE  /\ \A l \in Lines : line'[l] # Nothing => Priced(line'[l])
               /\ Alone' /\ \A f \in Editors : Fresh(f)'
    <2>1. collisions = 0 /\ r # Waiting
      BY <1>1, <1>8 DEF Waiting
    <2>2. \A f \in Editors : editing'[f] = Waiting
      BY <2>1, <1>7 DEF CatalogueInv, Alone
    <2>3. \A f \in Editors : editing'[f].pc = "idle"
      BY <2>2 DEF Waiting
    <2>4. \A l \in Lines : line'[l] # Nothing => Priced(line'[l])
      BY <1>3, <1>5, <2>1 DEF CatalogueInv
    <2>5. QED
      BY <2>2, <2>3, <2>4 DEF Alone, Fresh
  <1>9. QED
    BY <1>6, <1>8 DEF CatalogueInv

LEMMA FinishReportKeeps ==
  ASSUME CatalogueInv, NEW e \in Editors, FinishReport(e)
  PROVE  CatalogueInv'
  <1>1. /\ line' = line /\ collisions' = collisions
        /\ editing' = [editing EXCEPT ![e] = Waiting]
    BY DEF FinishReport
  <1>2. /\ DOMAIN editing' = Editors /\ editing'[e] = Waiting /\ editing'[e].pc = "idle"
        /\ \A f \in Editors \ {e} : editing'[f] = editing[f]
    BY <1>1 DEF CatalogueInv, CatalogueShape, Waiting
  <1>3. collisions = 0 => Alone' /\ \A f \in Editors : Fresh(f)'
    BY <1>1, <1>2 DEF CatalogueInv, Alone, Fresh
  <1>4. QED
    BY <1>1, <1>2, <1>3 DEF CatalogueInv, CatalogueShape

-----------------------------------------------------------------------------
LEMMA CatalogueStepOK ==
  ASSUME CatalogueInv, [CatalogueNext]_catalogueVars
  PROVE  CatalogueInv'
  <1>1. CASE UNCHANGED catalogueVars
    BY <1>1 DEF CatalogueInv, CatalogueShape, Alone, Fresh, catalogueVars
  <1>2. ASSUME NEW e \in Editors, Ask(e), UNCHANGED <<line, editing>>
        PROVE  CatalogueInv'
    BY AtOnce, <1>2 DEF CatalogueInv, CatalogueShape
  <1>3. ASSUME NEW e \in Editors, NEW l \in Lines, DeleteItem(e, l)
        PROVE  CatalogueInv'
    <2>1. Ask(e) /\ editing' = editing /\ line' = [line EXCEPT ![l] = Nothing]
      BY <1>3 DEF DeleteItem
    <2>2. DOMAIN line' = Lines /\ \A k \in Lines : line'[k] # Nothing => line'[k] = line[k]
      BY <2>1 DEF CatalogueInv, CatalogueShape
    <2>3. QED
      BY AtOnce, <2>1, <2>2
  <1>4. CASE CatalogueNext
    <2>1. PICK e \in Editors :
            \/ \E c \in Products :
                 \/ \E facts \in Found : CreateCandidate(e, c, facts)
                 \/ \E facts \in Found : PatchCandidate(e, c, facts)
                 \/ DeleteCandidate(e, c)
            \/ \E l \in Lines :
                 \/ \E row \in Sent : AddItem(e, l, row)
                 \/ \E patch \in Patches : LoadItem(e, l, patch)
                 \/ DeleteItem(e, l)
            \/ WriteItem(e) \/ ChangeScene(e) \/ BeginReport(e) \/ FinishReport(e)
      BY <1>4 DEF CatalogueNext
    <2>2. CASE \E c \in Products :
                 \/ \E facts \in Found : CreateCandidate(e, c, facts)
                 \/ \E facts \in Found : PatchCandidate(e, c, facts)
                 \/ DeleteCandidate(e, c)
      <3>1. Ask(e) /\ UNCHANGED <<line, editing>>
        BY <2>2 DEF CreateCandidate, PatchCandidate, DeleteCandidate
      <3>2. QED
        BY <1>2, <3>1
    <2>3. CASE \E l \in Lines :
                 \/ \E row \in Sent : AddItem(e, l, row)
                 \/ \E patch \in Patches : LoadItem(e, l, patch)
                 \/ DeleteItem(e, l)
      BY <1>3, <2>3, AddItemKeeps, LoadItemKeeps
    <2>4. CASE ChangeScene(e)
      BY <1>2, <2>4 DEF ChangeScene
    <2>5. QED
      BY <2>1, <2>2, <2>3, <2>4, WriteItemKeeps, BeginReportKeeps, FinishReportKeeps
  <1>5. QED
    BY <1>1, <1>4

LEMMA CatalogueInitOK == CatalogueInit => CatalogueInv
  BY DEF CatalogueInit, CatalogueInv, CatalogueShape, Alone, Fresh, Waiting

\* An amount comes with a currency (add_budget_item, patch_budget_item) as long as no
\* two requests overlap.
THEOREM AmountsPriced == CatalogueSpec => []AmountHasCurrency
  <1>1. CatalogueInv => AmountHasCurrency
    BY DEF CatalogueInv, AmountHasCurrency, Priced
  <1>2. QED
    BY <1>1, CatalogueInitOK, CatalogueStepOK, PTL DEF CatalogueSpec

-----------------------------------------------------------------------------
(***************************************************************************)
(* Totals.  A total adds up a function over its domain in the order in     *)
(* which CHOOSE takes the elements.  It satisfies its equation, which is   *)
(* shown by the least size of sets at which no function could; it does not *)
(* depend on the order, and the total over two parts is that over the      *)
(* whole, because a smallest set at which it were not could do without one *)
(* of its elements.                                                        *)
(***************************************************************************)

\* g adds up f over each subset of S
Adds(g, f, S) ==
  g = [T \in SUBSET S |->
         IF T = {} THEN 0 ELSE LET x == CHOOSE x \in T : TRUE IN f[x] + g[T \ {x}]]

\* A total is a sum.
LEMMA TotalAdds == ASSUME NEW f PROVE Total(f) = (CHOOSE g : Adds(g, f, DOMAIN f))[DOMAIN f]
  BY DEF Total, MapThenSumSet, MapThenFoldSet, Adds

\* A nonempty set of subsets of a finite set has a smallest element.
LEMMA SmallestSet ==
  ASSUME NEW S, IsFiniteSet(S), NEW W \in SUBSET (SUBSET S), W # {}
  PROVE  \E T \in W : \A U \in W : U \subseteq T => U = T
  <1>1. IsWellFoundedOn(StrictSubsetOrdering(S), SUBSET S)
    BY FS_StrictSubsetOrderingWellFounded, FS_FiniteSubsetsOfFinite
  <1>2. PICK T \in W : \A U \in W : ~(<<U, T>> \in StrictSubsetOrdering(S))
    <2>1. QED
      BY <1>1, WFMin
  <1>3. \A U \in W : U \subseteq T => U = T
    BY <1>2 DEF StrictSubsetOrdering
  <1>4. QED
    BY <1>3

\* The sum satisfies its equation.
LEMMA SumExists ==
  ASSUME NEW S, IsFiniteSet(S), NEW f \in [S -> Int]
  PROVE  \E g : Adds(g, f, S)
  <1> DEFINE Level(n) == {T \in SUBSET S : Cardinality(T) <= n}
             pick(T) == CHOOSE x \in T : TRUE
             Goes(n, g) == g = [T \in Level(n) |->
                                  IF T = {} THEN 0 ELSE f[pick(T)] + g[T \ {pick(T)}]]
             Bad == {n \in Nat : ~\E g : Goes(n, g)}
  <1>0. \A T \in SUBSET S : /\ IsFiniteSet(T) /\ Cardinality(T) \in Nat
                            /\ Cardinality(T) = 0 <=> T = {}
                            /\ T # {} => /\ pick(T) \in T /\ T \ {pick(T)} \in SUBSET S
                                         /\ Cardinality(T \ {pick(T)}) = Cardinality(T) - 1
    <2> TAKE T \in SUBSET S
    <2>1. IsFiniteSet(T) /\ Cardinality(T) \in Nat /\ (Cardinality(T) = 0 <=> T = {})
      BY FS_Subset, FS_CardinalityType, FS_EmptySet
    <2>2. ASSUME T # {} PROVE pick(T) \in T
      BY <2>2
    <2>3. QED
      BY <2>1, <2>2, FS_RemoveElement
  <1>1. \E g : Goes(0, g)
    <2> DEFINE g == [T \in Level(0) |-> 0]
    <2>1. ASSUME NEW T \in Level(0) PROVE T = {}
      <3>1. Cardinality(T) \in Nat /\ Cardinality(T) <= 0 /\ (Cardinality(T) = 0 <=> T = {})
        BY <1>0
      <3>2. QED
        BY <3>1
    <2>2. Goes(0, g)
      BY <2>1
    <2>3. QED
      BY <2>2
  <1>2. ASSUME NEW n \in Nat, \E g : Goes(n, g) PROVE \E g : Goes(n + 1, g)
    <2>1. PICK g : Goes(n, g)
      BY <1>2
    <2> DEFINE h == [T \in Level(n + 1) |->
                       IF T = {} THEN 0 ELSE f[pick(T)] + g[T \ {pick(T)}]]
    <2>2. ASSUME NEW T \in Level(n + 1), T # {}
          PROVE  g[T \ {pick(T)}] = h[T \ {pick(T)}]
      <3>1. T \ {pick(T)} \in Level(n) /\ T \ {pick(T)} \in Level(n + 1)
        BY <1>0, <2>2
      <3> DEFINE U == T \ {pick(T)}
      <3> HIDE DEF U
      <3>2. g[U] = IF U = {} THEN 0 ELSE f[pick(U)] + g[U \ {pick(U)}]
        BY <2>1, <3>1 DEF U
      <3>3. h[U] = IF U = {} THEN 0 ELSE f[pick(U)] + g[U \ {pick(U)}]
        BY <3>1 DEF U
      <3>4. QED
        BY <3>2, <3>3 DEF U
    <2>3. Goes(n + 1, h)
      <3>1. \A T \in Level(n + 1) :
              h[T] = IF T = {} THEN 0 ELSE f[pick(T)] + h[T \ {pick(T)}]
        <4>1. \A T \in Level(n + 1) :
                h[T] = IF T = {} THEN 0 ELSE f[pick(T)] + g[T \ {pick(T)}]
          OBVIOUS
        <4> HIDE DEF h, Level, pick
        <4>2. QED
          BY <2>2, <4>1
      <3>2. h = [T \in Level(n + 1) |-> h[T]]
        OBVIOUS
      <3> HIDE DEF h, Level, pick
      <3>3. QED
        BY <3>1, <3>2
    <2>4. QED
      BY <2>3
  <1> HIDE DEF Goes, Level, pick
  <1>3. \A n \in Nat : \E g : Goes(n, g)
    <2>1. ASSUME Bad # {} PROVE FALSE
      <3>1. PICK n \in Bad : \A m \in Bad : ~(m < n)
        <4>1. IsWellFoundedOn(OpToRel(<, Nat), Nat)
          BY NatLessThanWellFounded
        <4>2. PICK n \in Bad : \A m \in Bad : ~(<<m, n>> \in OpToRel(<, Nat))
          <5>1. Bad \subseteq Nat
            OBVIOUS
          <5> HIDE DEF Bad
          <5>2. QED
            BY <2>1, <4>1, <5>1, WFMin
        <4>3. QED
          BY <4>2 DEF OpToRel
      <3>2. n # 0 /\ n - 1 \in Nat
        BY <1>1, <3>1
      <3>3. \E g : Goes(n - 1, g)
        BY <3>1, <3>2
      <3>4. \E g : Goes((n - 1) + 1, g)
        BY <1>2, <3>2, <3>3
      <3>5. QED
        BY <3>1, <3>2, <3>4
    <2>2. QED
      BY <2>1
  <1>4. PICK g : Goes(Cardinality(S), g)
    BY <1>0, <1>3
  <1>5. Level(Cardinality(S)) = SUBSET S
    BY FS_Subset DEF Level
  <1>6. QED
    BY <1>4, <1>5 DEF Goes, Adds, pick

\* ... and does not depend on the order.
LEMMA SumAnyOrder ==
  ASSUME NEW S, IsFiniteSet(S), NEW f \in [S -> Int], NEW g, Adds(g, f, S)
  PROVE  /\ g[{}] = 0
         /\ \A T \in SUBSET S : g[T] \in Int
         /\ \A T \in SUBSET S : \A y \in T : g[T] = f[y] + g[T \ {y}]
  <1> DEFINE pick(T) == CHOOSE x \in T : TRUE
             Typed == {T \in SUBSET S : g[T] \notin Int}
             Bad == {T \in SUBSET S : \E y \in T : g[T] # f[y] + g[T \ {y}]}
  <1>1. g[{}] = 0
    BY DEF Adds
  <1>2. \A T \in SUBSET S : T # {} => pick(T) \in T /\ g[T] = f[pick(T)] + g[T \ {pick(T)}]
    BY DEF Adds
  <1> HIDE DEF pick
  <1>3. ASSUME Typed # {} PROVE FALSE
    <2>1. PICK T \in Typed : \A U \in Typed : U \subseteq T => U = T
      <3>1. Typed \in SUBSET (SUBSET S)
        OBVIOUS
      <3> HIDE DEF Typed
      <3>2. QED
        BY <1>3, <3>1, SmallestSet
    <2>2. T # {}
      <3>1. g[T] # 0
        BY <2>1
      <3>2. QED
        BY <1>1, <3>1
    <2>3. pick(T) \in T /\ g[T] = f[pick(T)] + g[T \ {pick(T)}] /\ f[pick(T)] \in Int
      BY <1>2, <2>2
    <2>4. T \ {pick(T)} \subseteq T /\ T \ {pick(T)} # T /\ T \ {pick(T)} \in SUBSET S
      BY <2>3
    <2>5. g[T \ {pick(T)}] \in Int
      BY <2>1, <2>4
    <2>6. QED
      BY <2>1, <2>3, <2>5
  <1>4. \A T \in SUBSET S : g[T] \in Int
    BY <1>3
  <1>5. ASSUME Bad # {} PROVE FALSE
    <2>1. PICK T \in Bad : \A U \in Bad : U \subseteq T => U = T
      <3>1. Bad \in SUBSET (SUBSET S)
        OBVIOUS
      <3> HIDE DEF Bad
      <3>2. QED
        BY <1>5, <3>1, SmallestSet
    <2>2. PICK y \in T : g[T] # f[y] + g[T \ {y}]
      BY <2>1
    <2>3. PICK x \in T : g[T] = f[x] + g[T \ {x}] /\ x # y
      BY <1>2, <2>2
    <2> DEFINE X == T \ {x}
               Y == T \ {y}
    <2>4. /\ X \in SUBSET S /\ X \subseteq T /\ X # T /\ y \in X
          /\ Y \in SUBSET S /\ Y \subseteq T /\ Y # T /\ x \in Y
          /\ X \ {y} = Y \ {x} /\ X \ {y} \in SUBSET S
      BY <2>3
    <2> HIDE DEF X, Y
    <2>5. X \notin Bad /\ Y \notin Bad
      BY <2>1, <2>4
    <2>6. g[X] = f[y] + g[X \ {y}] /\ g[Y] = f[x] + g[Y \ {x}]
      BY <2>4, <2>5
    <2>7. f[x] \in Int /\ f[y] \in Int /\ g[X \ {y}] \in Int
      BY <1>4, <2>3, <2>4
    <2>8. g[T] = f[y] + g[Y]
      <3>1. g[T] = f[x] + g[X]
        BY <2>3 DEF X
      <3>2. g[Y] = f[x] + g[X \ {y}]
        BY <2>4, <2>6
      <3>3. QED
        BY <2>6, <2>7, <3>1, <3>2
    <2>9. QED
      BY <2>2, <2>8 DEF Y
  <1>6. QED
    BY <1>1, <1>4, <1>5

\* The total is the sum over all that there is.
LEMMA SumOfTotal ==
  ASSUME NEW S, IsFiniteSet(S), NEW f \in [S -> Int]
  PROVE  \E g : Adds(g, f, S) /\ Total(f) = g[S]
  <1>1. DOMAIN f = S
    OBVIOUS
  <1>2. \E g : Adds(g, f, S)
    BY SumExists
  <1> DEFINE g == CHOOSE h : Adds(h, f, S)
  <1>3. Adds(g, f, S)
    <2>1. \A h : Adds(h, f, S) => Adds(g, f, S)
      OBVIOUS
    <2>2. QED
      BY <1>2, <2>1
  <1>4. Total(f) = g[S]
    BY <1>1, TotalAdds
  <1>5. QED
    BY <1>3, <1>4

\* A total of integers is one.
LEMMA TotalWhole ==
  ASSUME NEW S, IsFiniteSet(S), NEW f \in [S -> Int]
  PROVE  Total(f) \in Int
  <1>1. PICK g : Adds(g, f, S) /\ Total(f) = g[S]
    BY SumOfTotal
  <1>2. QED
    BY <1>1, SumAnyOrder

\* The sum over two parts is the sum over the whole.
LEMMA SumOfParts ==
  ASSUME NEW S, IsFiniteSet(S), NEW A \in SUBSET S, NEW f \in [S -> Int]
  PROVE  Total(f) = Total([x \in A |-> f[x]]) + Total([x \in S \ A |-> f[x]])
  <1> DEFINE B == S \ A
             a == [x \in A |-> f[x]]
             b == [x \in B |-> f[x]]
  <1>a. /\ a \in [A -> Int] /\ \A x \in A : a[x] = f[x]
        /\ b \in [B -> Int] /\ \A x \in B : b[x] = f[x]
    OBVIOUS
  <1> HIDE DEF a, b
  <1>0. IsFiniteSet(A) /\ IsFiniteSet(B)
    BY FS_Subset
  <1>1. PICK g : Adds(g, f, S) /\ Total(f) = g[S]
    BY SumOfTotal
  <1>2. PICK p : Adds(p, a, A) /\ Total(a) = p[A]
    BY <1>0, <1>a, SumOfTotal
  <1>3. PICK q : Adds(q, b, B) /\ Total(b) = q[B]
    BY <1>0, <1>a, SumOfTotal
  <1>4. /\ g[{}] = 0 /\ \A T \in SUBSET S : \A y \in T : g[T] = f[y] + g[T \ {y}]
    <2>1. g[{}] = 0
      BY <1>1, SumAnyOrder
    <2>2. ASSUME NEW T \in SUBSET S, NEW y \in T PROVE g[T] = f[y] + g[T \ {y}]
      BY <1>1, SumAnyOrder
    <2>3. QED
      BY <2>1, <2>2
  <1>5. /\ p[{}] = 0 /\ \A T \in SUBSET A : p[T] \in Int
        /\ \A T \in SUBSET A : \A y \in T : p[T] = a[y] + p[T \ {y}]
    <2>1. a \in [A -> Int]
      BY <1>a
    <2>2. QED
      <3>1. IsFiniteSet(A) /\ Adds(p, a, A)
        BY <1>0, <1>2
      <3>2. p[{}] = 0
        BY <2>1, <3>1, SumAnyOrder
      <3>3. \A T \in SUBSET A : p[T] \in Int
        BY <2>1, <3>1, SumAnyOrder
      <3>4. ASSUME NEW T \in SUBSET A, NEW y \in T PROVE p[T] = a[y] + p[T \ {y}]
        BY <2>1, <3>1, SumAnyOrder
      <3>5. QED
        BY <3>2, <3>3, <3>4
  <1>6. /\ q[{}] = 0 /\ \A T \in SUBSET B : q[T] \in Int
        /\ \A T \in SUBSET B : \A y \in T : q[T] = b[y] + q[T \ {y}]
    BY <1>0, <1>3, <1>a, SumAnyOrder
  <1> DEFINE Bad == {T \in SUBSET S : g[T] # p[T \cap A] + q[T \cap B]}
  <1>7. ASSUME Bad # {} PROVE FALSE
    <2>1. PICK T \in Bad : \A U \in Bad : U \subseteq T => U = T
      <3>1. Bad \in SUBSET (SUBSET S)
        OBVIOUS
      <3> HIDE DEF Bad
      <3>2. QED
        BY <1>7, <3>1, SmallestSet
    <2>2. T # {}
      <3>1. {} \cap A = {} /\ {} \cap B = {}
        OBVIOUS
      <3>2. g[{}] = p[{} \cap A] + q[{} \cap B]
        BY <1>4, <1>5, <1>6, <3>1
      <3>3. g[T] # p[T \cap A] + q[T \cap B]
        BY <2>1
      <3> HIDE DEF B
      <3>4. QED
        BY <3>2, <3>3
    <2>3. PICK y : y \in T
      BY <2>2
    <2> DEFINE U == T \ {y}
    <2>4. U \in SUBSET S /\ U \subseteq T /\ U # T /\ g[T] = f[y] + g[U]
      BY <1>4, <2>3
    <2>5. g[U] = p[U \cap A] + q[U \cap B]
      <3> HIDE DEF U
      <3>1. QED
        BY <2>1, <2>4
    <2>6. p[U \cap A] \in Int /\ q[U \cap B] \in Int /\ f[y] \in Int
      BY <1>5, <1>6, <2>3
    <2>7. CASE y \in A
      <3>1. /\ (T \cap A) \ {y} = U \cap A /\ T \cap B = U \cap B
            /\ T \cap A \in SUBSET A /\ y \in T \cap A
        BY <2>3, <2>7
      <3>2. p[T \cap A] = a[y] + p[(T \cap A) \ {y}] /\ a[y] = f[y]
        BY <1>5, <1>a, <2>7, <3>1
      <3>3. p[T \cap A] = f[y] + p[U \cap A] /\ q[T \cap B] = q[U \cap B]
        BY <3>1, <3>2
      <3> HIDE DEF U, B
      <3>4. QED
        BY <2>1, <2>4, <2>5, <2>6, <3>3
    <2>8. CASE y \notin A
      <3>1. /\ (T \cap B) \ {y} = U \cap B /\ T \cap A = U \cap A
            /\ T \cap B \in SUBSET B /\ y \in T \cap B
        BY <2>3, <2>8
      <3>2. q[T \cap B] = b[y] + q[(T \cap B) \ {y}] /\ b[y] = f[y]
        BY <1>6, <1>a, <2>3, <2>8, <3>1
      <3>3. q[T \cap B] = f[y] + q[U \cap B] /\ p[T \cap A] = p[U \cap A]
        BY <3>1, <3>2
      <3> HIDE DEF U, B
      <3>4. QED
        BY <2>1, <2>4, <2>5, <2>6, <3>3
    <2>9. QED
      BY <2>7, <2>8
  <1>8. g[S] = p[S \cap A] + q[S \cap B] /\ S \cap A = A /\ S \cap B = B
    BY <1>7
  <1>9. QED
    BY <1>1, <1>2, <1>3, <1>8 DEF a, b

-----------------------------------------------------------------------------
(***************************************************************************)
(* A report that is not incomplete leaves nothing out, for any number of   *)
(* editors, lines and products, whatever requests overlap.                 *)
(*                                                                         *)
(* The argument.  A line that has a price has it from where its kind has   *)
(* it (LineWhole); the lines are those with an amount, those for a product *)
(* and the measured ones, and the total is that of the three parts.        *)
(***************************************************************************)

Sizes == {Nothing, Size}

\* rows have the values a client may set, also those that a report or a patch has read
CatalogueTyped ==
  /\ line \in [Lines -> BudgetItem \cup {Nothing}]
  /\ product \in [Products -> ProductCandidate \cup {Nothing}]
  /\ measure \in Sizes /\ DOMAIN editing = Editors
  /\ \A e \in Editors :
       LET r == editing[e]
       IN /\ r.pc = "report" => r.rows \in [Lines -> BudgetItem \cup {Nothing}] /\ r.size \in Sizes
          /\ r.pc = "patch" => r.on \in Lines /\ r.new \in BudgetItem

\* n once, or as often as the row says
Times(row, n) == 100 * (IF row.quantity = Nothing THEN n ELSE n * row.quantity)

\* a line for a product, or for what the scene measures, that has no amount of its own
Bought(row) == row.kind \in Products /\ row.amount = Nothing
Measured(row) == row.kind \notin Products /\ row.amount = Nothing

\* what a takeoff comes to
Cost(row, size) ==
  row.takeoff.price *
    Packages(IF row.takeoff.unit = "each" THEN row.quantity ELSE size, row.takeoff.packed)

\* What is bought is counted in integers.
LEMMA PackagesWhole == ASSUME NEW n \in Nat, NEW packed \in BOOLEAN PROVE Packages(n, packed) \in Int
  <1> DEFINE required == n * (100 + Waste)
  <1>1. required \in Int /\ 100 * PackageSize \in Int /\ 100 * PackageSize > 0
    BY CatalogueAssumption
  <1>2. Packages(n, packed) =
          IF packed THEN 100 * ((required + 100 * PackageSize - 1) \div (100 * PackageSize))
          ELSE required
    BY DEF Packages
  <1> HIDE DEF required
  <1>3. QED
    BY <1>1, <1>2

\* What a line that has a price contributes.
LEMMA LineWhole ==
  ASSUME NEW row \in BudgetItem, NEW size \in Sizes, PriceItem(row, size).complete,
         product \in [Products -> ProductCandidate \cup {Nothing}]
  PROVE  LET answer == PriceItem(row, size)
             p == product[row.kind]
         IN /\ answer.gives \in Int
            /\ ~answer.raises /\ answer.currency \in Currencies \cup {Unnamed}
            /\ answer.currency = IF Bought(row) /\ row.currency = Nothing
                                 THEN p.currency ELSE row.currency
            /\ row.amount # Nothing => answer.gives = Times(row, row.amount)
            /\ Bought(row) => /\ p # Nothing /\ p.price # Nothing
                              /\ answer.gives = Times(row, p.price)
            /\ Measured(row) => /\ row.kind = "material" /\ row.takeoff.price # Nothing
                                /\ answer.gives = Cost(row, size)
  <1> DEFINE p == IF row.kind \in Products THEN product[row.kind] ELSE Nothing
             base == BaseQuantity(row, size)
             raises == ByTakeoff(row) /\ base # Nothing /\ ~row.takeoff.numeric
             each == IF ByProduct(row) THEN (IF p = Nothing THEN Nothing ELSE p.price)
                     ELSE IF ByTakeoff(row) THEN (IF base = Nothing THEN Nothing
                                                  ELSE row.takeoff.price)
                     ELSE row.amount
             currency == IF ByProduct(row) /\ row.currency = Nothing /\ p # Nothing
                         THEN p.currency ELSE row.currency
             known == ~raises /\ each # Nothing /\ currency # Nothing
             gives == IF ~known THEN 0
                      ELSE IF ByTakeoff(row) THEN Packages(base, row.takeoff.packed) * each
                      ELSE Times(row, each)
             answer == PriceItem(row, size)
  <1>1. answer = [complete |-> known, raises |-> raises, currency |-> currency, gives |-> gives]
    BY DEF PriceItem, Times
  <1>2. answer.currency = currency /\ answer.gives = gives /\ answer.raises = raises
    <2> HIDE DEF known, raises, currency, gives, answer
    <2>1. QED
      BY <1>1
  <1>3. known
    <2>1. answer.complete = known
      <3> HIDE DEF known, raises, currency, gives, answer
      <3>1. QED
        BY <1>1
    <2>2. answer.complete
      OBVIOUS
    <2>3. QED
      BY <2>1, <2>2
  <1>4. /\ row.amount \in Amounts /\ row.currency \in Currencies \cup {Nothing}
        /\ row.quantity \in Counts /\ row.takeoff \in Takeoffs \cup {Nothing}
        /\ row.kind \in {"manual", "material"} \cup Products
        /\ ByTakeoff(row) => ~ByProduct(row) /\ row.kind \notin Products
    BY CatalogueAssumption DEF BudgetItem, ByTakeoff, ByProduct
  <1>5. Price \in Int /\ Count \in Nat /\ Size \in Nat
    BY CatalogueAssumption
  <1>6. ByProduct(row) => /\ p = product[row.kind] /\ p # Nothing /\ p \in ProductCandidate
                          /\ p.price = Price /\ each = Price
                          /\ p.currency \in Currencies \cup {Unnamed, Nothing}
    <2>1. ASSUME ByProduct(row) PROVE p = product[row.kind] /\ p # Nothing /\ p \in ProductCandidate
      BY <1>3, <2>1 DEF ByProduct
    <2>2. ASSUME ByProduct(row) PROVE each = p.price
      BY <2>1, <2>2
    <2> HIDE DEF p, each
    <2>3. QED
      BY <1>3, <2>1, <2>2 DEF ProductCandidate, Amounts
  <1>7. ByTakeoff(row) => /\ base \in Nat /\ row.takeoff # Nothing /\ row.takeoff \in Takeoffs
                          /\ row.takeoff.packed \in BOOLEAN
                          /\ base = IF row.takeoff.unit = "each" THEN row.quantity ELSE size
                          /\ each = row.takeoff.price /\ each = Price
    <2>1. ASSUME ByTakeoff(row) PROVE base # Nothing /\ each = row.takeoff.price
      BY <1>3, <1>4, <2>1
    <2>2. ASSUME ByTakeoff(row) PROVE row.takeoff # Nothing /\ row.takeoff \in Takeoffs
      BY <1>4, <2>1, <2>2 DEF BaseQuantity
    <2>3. ASSUME ByTakeoff(row)
          PROVE  base = IF row.takeoff.unit = "each" THEN row.quantity ELSE size
      BY <2>2, <2>3 DEF BaseQuantity
    <2>4. ASSUME ByTakeoff(row) PROVE base \in Nat
      BY <1>4, <1>5, <2>1, <2>3, <2>4 DEF Counts, Sizes
    <2>5. ASSUME ByTakeoff(row) PROVE row.takeoff.price = Price /\ row.takeoff.packed \in BOOLEAN
      BY <1>3, <2>1, <2>2, <2>5 DEF Takeoffs, Amounts
    <2> HIDE DEF base, each
    <2>6. QED
      BY <2>1, <2>2, <2>3, <2>4, <2>5
  <1>8. ~ByProduct(row) /\ ~ByTakeoff(row) => each = row.amount /\ each = Price
    BY <1>3, <1>4 DEF Amounts
  <1>9. ~ByProduct(row) /\ ~ByTakeoff(row) => row.amount # Nothing
    BY <1>3
  <1>10. currency \in Currencies \cup {Unnamed}
    <2> HIDE DEF p, each, raises
    <2>1. QED
      BY <1>3, <1>4, <1>6
  <1>11. currency = IF Bought(row) /\ row.currency = Nothing
                    THEN product[row.kind].currency ELSE row.currency
    <2> HIDE DEF p
    <2>1. QED
      BY <1>6 DEF Bought, ByProduct
  <1>12. gives = IF ByTakeoff(row) THEN Packages(base, row.takeoff.packed) * each
                  ELSE Times(row, each)
    BY <1>3
  <1>13. each = Price
    BY <1>6, <1>7, <1>8
  <1>21. ~raises
    BY <1>3
  <1> HIDE DEF p, base, raises, each, currency, known, gives, answer
  <1>14. Times(row, Price) \in Int
    BY <1>4, <1>5 DEF Times, Counts
  <1> DEFINE bought == Packages(base, row.takeoff.packed)
  <1>15. ByTakeoff(row) => bought * each \in Int /\ bought * each = Cost(row, size)
    <2> SUFFICES ASSUME ByTakeoff(row)
                 PROVE  bought * each \in Int /\ bought * each = Cost(row, size)
      OBVIOUS
    <2>1. bought \in Int
      BY <1>7, PackagesWhole
    <2>2. Cost(row, size) = Price * bought
      BY <1>7 DEF Cost
    <2>3. QED
      BY <1>5, <1>13, <2>1, <2>2
  <1>16. gives \in Int
    BY <1>12, <1>13, <1>14, <1>15
  <1>17. ASSUME row.amount # Nothing PROVE gives = Times(row, row.amount)
    BY <1>8, <1>12, <1>17 DEF ByTakeoff, ByProduct
  <1>18. ASSUME Bought(row)
         PROVE  /\ product[row.kind] # Nothing /\ product[row.kind].price # Nothing
                /\ gives = Times(row, product[row.kind].price)
    <2>1. ByProduct(row) /\ ~ByTakeoff(row)
      BY <1>4, <1>18 DEF Bought, ByProduct
    <2>2. QED
      BY <1>3, <1>6, <1>12, <2>1 DEF known
  <1>19. ASSUME Measured(row)
         PROVE  /\ row.kind = "material" /\ row.takeoff.price # Nothing
                /\ gives = Cost(row, size)
    <2>1. ByTakeoff(row)
      BY <1>9, <1>19 DEF Measured, ByProduct
    <2>2. QED
      BY <1>3, <1>7, <1>12, <1>15, <2>1 DEF known, ByTakeoff
  <1>20. QED
    BY <1>2, <1>10, <1>11, <1>16, <1>17, <1>18, <1>19, <1>21 DEF answer

\* A report in no more than one currency has one.
LEMMA OneCurrency ==
  ASSUME NEW S \in SUBSET Currencies, ~(Cardinality(S) > 1)
  PROVE  \A a, b \in S : a = b
  <1>1. IsFiniteSet(Currencies)
    <2>1. Currencies = {"RUB"} \cup {"USD"}
      BY DEF Currencies
    <2>2. QED
      BY <2>1, FS_Singleton, FS_AddElement
  <1>2. IsFiniteSet(S) /\ Cardinality(S) \in Nat
    BY <1>1, FS_Subset, FS_CardinalityType
  <1>3. Cardinality(S) = 0 \/ Cardinality(S) = 1
    BY <1>2
  <1>4. QED
    BY <1>2, <1>3, FS_EmptySet, FS_Singleton

\* The prices a report shows are those of the lines it has read, and so is their total.
LEMMA Whole == CatalogueTyped => ReportIsWhole
  <1> SUFFICES ASSUME CatalogueTyped, NEW e \in Editors, editing[e].pc = "report",
                      ~BudgetReport(editing[e]).incomplete
               PROVE  LET row == editing[e].rows
                          on == {l \in Lines : row[l] # Nothing}
                          manual == {l \in on : row[l].amount # Nothing}
                          bought == {l \in on \ manual : row[l].kind \in Products}
                          measured == (on \ manual) \ bought
                          times(n, l) == 100 * (IF row[l].quantity = Nothing THEN n ELSE n * row[l].quantity)
                          answer == BudgetReport(editing[e])
                      IN /\ ~answer.raises
                         /\ \A l \in bought : product[row[l].kind] # Nothing /\ product[row[l].kind].price # Nothing
                         /\ \A l \in measured : row[l].kind = "material" /\ row[l].takeoff.price # Nothing
                         /\ \E cur \in Currencies : \A l \in on :
                              (IF l \in bought /\ row[l].currency = Nothing
                               THEN product[row[l].kind].currency ELSE row[l].currency)
                                \in {cur, Unnamed}
                         /\ answer.total =
                              Total([l \in manual |-> times(row[l].amount, l)])
                                + Total([l \in bought |-> times(product[row[l].kind].price, l)])
                                + Total([l \in measured |-> row[l].takeoff.price *
                                      Packages(IF row[l].takeoff.unit = "each" THEN row[l].quantity
                                               ELSE editing[e].size, row[l].takeoff.packed)])
    BY DEF ReportIsWhole
  <1> DEFINE row == editing[e].rows
             size == editing[e].size
             on == {l \in Lines : row[l] # Nothing}
             manual == {l \in on : row[l].amount # Nothing}
             bought == {l \in on \ manual : row[l].kind \in Products}
             measured == (on \ manual) \ bought
             bill == [l \in on |-> PriceItem(row[l], size)]
             currencies == {bill[l].currency : l \in {k \in on : bill[k].complete}} \ {Unnamed}
             F == [l \in on |-> bill[l].gives]
             M == [l \in manual |-> Times(row[l], row[l].amount)]
             R == [l \in on \ manual |-> bill[l].gives]
             B == [l \in bought |-> Times(row[l], product[row[l].kind].price)]
             C == [l \in measured |-> Cost(row[l], size)]
  <1>1. /\ row \in [Lines -> BudgetItem \cup {Nothing}] /\ size \in Sizes
        /\ product \in [Products -> ProductCandidate \cup {Nothing}]
    BY DEF CatalogueTyped
  <1>2. /\ ~(Cardinality(currencies) > 1) /\ \A l \in on : bill[l].complete
        /\ BudgetReport(editing[e]).total = Total(F)
        /\ BudgetReport(editing[e]).raises = \E l \in on : bill[l].raises
    <2> DEFINE incomplete == Cardinality(currencies) > 1 \/ \E l \in on : ~bill[l].complete
               raises == \E l \in on : bill[l].raises
    <2>1. BudgetReport(editing[e]) =
            [currencies |-> currencies, raises |-> raises, incomplete |-> incomplete,
             total |-> Total(F)]
      BY DEF BudgetReport
    <2> HIDE DEF F
    <2>3. BudgetReport(editing[e]).total = Total(F) /\ BudgetReport(editing[e]).raises = raises
      <3> HIDE DEF currencies, incomplete, raises, on
      <3>1. QED
        BY <2>1
    <2>4. ~incomplete
      <3> HIDE DEF currencies, incomplete, raises
      <3>1. BudgetReport(editing[e]).incomplete = incomplete
        BY <2>1
      <3>2. QED
        BY <3>1
    <2> HIDE DEF currencies, bill, on
    <2>5. QED
      BY <2>3, <2>4
  <1>3. \A l \in on : bill[l] = PriceItem(row[l], size) /\ row[l] \in BudgetItem
    BY <1>1
  <1>4. ASSUME NEW l \in on
        PROVE  /\ bill[l].gives \in Int /\ ~bill[l].raises
               /\ bill[l].currency # Unnamed => bill[l].currency \in currencies
               /\ bill[l].currency \in Currencies \cup {Unnamed}
               /\ bill[l].currency = IF Bought(row[l]) /\ row[l].currency = Nothing
                                     THEN product[row[l].kind].currency ELSE row[l].currency
               /\ row[l].amount # Nothing => bill[l].gives = Times(row[l], row[l].amount)
               /\ Bought(row[l]) => /\ product[row[l].kind] # Nothing
                                    /\ product[row[l].kind].price # Nothing
                                    /\ bill[l].gives = Times(row[l], product[row[l].kind].price)
               /\ Measured(row[l]) => /\ row[l].kind = "material" /\ row[l].takeoff.price # Nothing
                                      /\ bill[l].gives = Cost(row[l], size)
    <2>1. bill[l] = PriceItem(row[l], size) /\ row[l] \in BudgetItem /\ bill[l].complete
      BY <1>2, <1>3
    <2>2. bill[l].currency # Unnamed => bill[l].currency \in currencies
      BY <2>1
    <2> HIDE DEF bill, row, size, on, currencies
    <2>3. QED
      BY <1>1, <2>1, <2>2, LineWhole
  <1>5. /\ \A l \in manual : l \in on /\ row[l].amount # Nothing
        /\ \A l \in bought : l \in on /\ Bought(row[l])
        /\ \A l \in measured : l \in on /\ Measured(row[l])
        /\ \A l \in on : l \in bought <=> Bought(row[l])
    BY DEF Bought, Measured
  <1>6. /\ IsFiniteSet(on) /\ IsFiniteSet(on \ manual)
        /\ manual \in SUBSET on /\ bought \in SUBSET (on \ manual)
    <2>1. on \in SUBSET Lines /\ on \ manual \in SUBSET Lines
      OBVIOUS
    <2>2. manual \in SUBSET on /\ bought \in SUBSET (on \ manual)
      OBVIOUS
    <2> HIDE DEF on, manual
    <2>3. QED
      BY <2>1, <2>2, FS_Subset, CatalogueAssumption
  <1> HIDE DEF bill, row, size, on, manual, bought, currencies
  <1>7. Total(F) = Total(M) + Total(R)
    <2>1. F \in [on -> Int]
      BY <1>4
    <2>2. M = [l \in manual |-> F[l]] /\ R = [l \in on \ manual |-> F[l]]
      BY <1>4, <1>5, <1>6
    <2> HIDE DEF F, M, R
    <2>3. Total(F) = Total([l \in manual |-> F[l]]) + Total([l \in on \ manual |-> F[l]])
      BY <1>6, <2>1, SumOfParts
    <2>4. QED
      BY <2>2, <2>3
  <1>8. Total(R) = Total(B) + Total(C)
    <2>1. R \in [on \ manual -> Int]
      BY <1>4
    <2>2. B = [l \in bought |-> R[l]] /\ C = [l \in measured |-> R[l]]
      BY <1>4, <1>5, <1>6
    <2> HIDE DEF R, B, C
    <2>3. Total(R) = Total([l \in bought |-> R[l]]) + Total([l \in measured |-> R[l]])
      BY <1>6, <2>1, SumOfParts
    <2>4. QED
      BY <2>2, <2>3
  <1>9. /\ Total(M) \in Int /\ Total(B) \in Int /\ Total(C) \in Int
    <2>1. M \in [manual -> Int] /\ B \in [bought -> Int] /\ C \in [measured -> Int]
      BY <1>4, <1>5
    <2>2. IsFiniteSet(manual) /\ IsFiniteSet(bought) /\ IsFiniteSet(measured)
      BY <1>6, FS_Subset
    <2> HIDE DEF M, B, C, measured
    <2>3. QED
      BY <2>1, <2>2, TotalWhole
  <1>10. \E cur \in Currencies : \A l \in on :
           (IF l \in bought /\ row[l].currency = Nothing
            THEN product[row[l].kind].currency ELSE row[l].currency) \in {cur, Unnamed}
    <2> DEFINE shown(l) == IF l \in bought /\ row[l].currency = Nothing
                           THEN product[row[l].kind].currency ELSE row[l].currency
    <2>1. \A l \in on : bill[l].currency = shown(l)
      BY <1>4, <1>5
    <2>2. currencies \in SUBSET Currencies
      BY <1>4 DEF currencies
    <2>3. \A a, b \in currencies : a = b
      BY <1>2, <2>2, OneCurrency
    <2> HIDE DEF shown
    <2>4. CASE currencies = {}
      <3>1. \A l \in on : shown(l) = Unnamed
        BY <1>4, <2>1, <2>4
      <3>2. "RUB" \in Currencies
        BY DEF Currencies
      <3>3. \E cur \in Currencies : \A l \in on : shown(l) \in {cur, Unnamed}
        BY <3>1, <3>2
      <3>4. QED
        BY <3>3 DEF shown
    <2>5. CASE currencies # {}
      <3>1. PICK cur \in currencies : TRUE
        BY <2>5
      <3>2. \A l \in on : shown(l) \in {cur, Unnamed}
        BY <1>4, <2>1, <2>3, <3>1
      <3>3. \E c \in Currencies : \A l \in on : shown(l) \in {c, Unnamed}
        BY <2>2, <3>1, <3>2
      <3>4. QED
        BY <3>3 DEF shown
    <2>6. QED
      BY <2>4, <2>5
  <1> DEFINE times(n, l) == 100 * (IF row[l].quantity = Nothing THEN n ELSE n * row[l].quantity)
  <1>11. BudgetReport(editing[e]).total =
            Total([l \in manual |-> times(row[l].amount, l)])
              + Total([l \in bought |-> times(product[row[l].kind].price, l)])
              + Total([l \in measured |-> row[l].takeoff.price *
                    Packages(IF row[l].takeoff.unit = "each" THEN row[l].quantity ELSE size,
                             row[l].takeoff.packed)])
    <2>1. /\ M = [l \in manual |-> times(row[l].amount, l)]
          /\ B = [l \in bought |-> times(product[row[l].kind].price, l)]
          /\ C = [l \in measured |-> row[l].takeoff.price *
                    Packages(IF row[l].takeoff.unit = "each" THEN row[l].quantity ELSE size,
                             row[l].takeoff.packed)]
      BY DEF Times, Cost
    <2>2. BudgetReport(editing[e]).total = Total(M) + Total(B) + Total(C)
      <3> HIDE DEF F, M, R, B, C
      <3>1. QED
        BY <1>2, <1>7, <1>8, <1>9
    <2> HIDE DEF F, M, R, B, C, measured, times
    <2>3. QED
      BY <2>1, <2>2
  <1>12. /\ \A l \in bought : product[row[l].kind] # Nothing /\ product[row[l].kind].price # Nothing
         /\ \A l \in measured : row[l].kind = "material" /\ row[l].takeoff.price # Nothing
    <2> HIDE DEF measured
    <2>1. QED
      BY <1>4, <1>5
  <1>13. ~BudgetReport(editing[e]).raises
    BY <1>2, <1>4
  <1>14. QED
    BY <1>10, <1>11, <1>12, <1>13 DEF row, size, on, manual, bought

\* The fields of a row that a client sets, and the currency that comes with an amount ...
LEMMA SetKeepsItem ==
  ASSUME NEW row \in BudgetItem, NEW patch \in Patches
  PROVE  Patched(row, patch) \in BudgetItem
  <1>1. PICK like \in BudgetItem : \A f \in DOMAIN patch : patch[f] = like[f]
    BY CatalogueAssumption
  <1>2. DOMAIN row = ItemFields
    BY DEF BudgetItem, ItemFields
  <1> DEFINE new == Patched(row, patch)
  <1>3. new = [f \in ItemFields |-> IF f \in DOMAIN patch THEN like[f] ELSE row[f]]
    BY <1>1, <1>2 DEF Patched
  <1>4. /\ new.kind \in {row.kind, like.kind} /\ new.amount \in {row.amount, like.amount}
        /\ new.currency \in {row.currency, like.currency}
        /\ new.quantity \in {row.quantity, like.quantity}
        /\ new.takeoff \in {row.takeoff, like.takeoff}
    BY <1>3 DEF ItemFields
  <1>5. new = [kind |-> new.kind, amount |-> new.amount, currency |-> new.currency,
               quantity |-> new.quantity, takeoff |-> new.takeoff]
    BY <1>3 DEF ItemFields
  <1> HIDE DEF new
  <1>6. QED
    BY <1>4, <1>5 DEF BudgetItem, new

\* ... leave a row a row.
LEMMA CurrencyKeepsItem ==
  ASSUME NEW row \in BudgetItem
  PROVE  WithCurrency(row) \in BudgetItem
  BY DEF BudgetItem, WithCurrency, DefaultCurrency, Currencies

\* A request that begins or ends, with what it has read.
LEMMA ServedTyped ==
  ASSUME CatalogueTyped, NEW e \in Editors, NEW r, editing' = [editing EXCEPT ![e] = r],
         UNCHANGED <<line, product, measure>>,
         r.pc = "report" => r.rows \in [Lines -> BudgetItem \cup {Nothing}] /\ r.size \in Sizes,
         r.pc = "patch" => r.on \in Lines /\ r.new \in BudgetItem
  PROVE  CatalogueTyped'
  BY DEF CatalogueTyped

\* A patch that is written changes a row into a row.
LEMMA WriteTyped ==
  ASSUME CatalogueTyped, NEW e \in Editors, WriteItem(e)
  PROVE  CatalogueTyped'
  <1> DEFINE r == editing[e]
             written == [f \in DOMAIN line[r.on] |->
                           IF r.new[f] # r.old[f] THEN r.new[f] ELSE line[r.on][f]]
  <1>1. /\ r.pc = "patch" /\ UNCHANGED <<product, measure>>
        /\ line' = IF line[r.on] = Nothing THEN line ELSE [line EXCEPT ![r.on] = written]
        /\ editing' = [editing EXCEPT ![e] = Waiting]
    BY DEF WriteItem
  <1>2. r.on \in Lines /\ r.new \in BudgetItem
    BY <1>1 DEF CatalogueTyped
  <1>3. line[r.on] # Nothing => written \in BudgetItem
    <2> SUFFICES ASSUME line[r.on] # Nothing PROVE written \in BudgetItem
      OBVIOUS
    <2>1. line[r.on] \in BudgetItem
      BY <1>2 DEF CatalogueTyped
    <2> HIDE DEF r
    <2>2. QED
      BY <1>2, <2>1 DEF BudgetItem
  <1> HIDE DEF written
  <1>4. line' \in [Lines -> BudgetItem \cup {Nothing}]
    BY <1>1, <1>2, <1>3 DEF CatalogueTyped
  <1> HIDE DEF r
  <1>5. Waiting.pc = "idle"
    BY DEF Waiting
  <1>6. QED
    BY <1>1, <1>4, <1>5 DEF CatalogueTyped

\* Every request keeps the types.
LEMMA TypedStep ==
  ASSUME CatalogueTyped, [CatalogueNext]_catalogueVars
  PROVE  CatalogueTyped'
  <1>1. CASE UNCHANGED catalogueVars
    BY <1>1 DEF CatalogueTyped, catalogueVars
  <1>2. ASSUME NEW c \in Products, NEW v \in ProductCandidate \cup {Nothing},
               product' = product \/ product' = [product EXCEPT ![c] = v],
               UNCHANGED <<line, measure, editing>>
        PROVE  CatalogueTyped'
    BY <1>2 DEF CatalogueTyped
  <1>3. ASSUME NEW l \in Lines, NEW v \in BudgetItem \cup {Nothing},
               line' = [line EXCEPT ![l] = v], UNCHANGED <<product, measure, editing>>
        PROVE  CatalogueTyped'
    BY <1>3 DEF CatalogueTyped
  <1>4. ASSUME NEW e \in Editors, NEW c \in Products, NEW facts \in Found,
               PatchCandidate(e, c, facts)
        PROVE  CatalogueTyped'
    BY <1>2, <1>4, CatalogueAssumption DEF PatchCandidate
  <1>5. ASSUME NEW e \in Editors, NEW c \in Products,
               DeleteCandidate(e, c) \/ \E facts \in Found : CreateCandidate(e, c, facts)
        PROVE  CatalogueTyped'
    BY <1>2, <1>5, CatalogueAssumption DEF DeleteCandidate, CreateCandidate
  <1>6. ASSUME NEW e \in Editors, NEW l \in Lines,
               DeleteItem(e, l) \/ \E row \in Sent : AddItem(e, l, row)
        PROVE  CatalogueTyped'
    BY <1>3, <1>6, CatalogueAssumption, CurrencyKeepsItem DEF DeleteItem, AddItem
  <1>7. ASSUME NEW e \in Editors, NEW l \in Lines, NEW patch \in Patches, LoadItem(e, l, patch)
        PROVE  CatalogueTyped'
    <2>1. line[l] \in BudgetItem
      BY <1>7 DEF LoadItem, CatalogueTyped
    <2> DEFINE new == WithCurrency(Patched(line[l], patch))
               r == [pc |-> "patch", on |-> l, old |-> line[l], new |-> new]
    <2>2. new \in BudgetItem
      BY <2>1, SetKeepsItem, CurrencyKeepsItem
    <2>3. editing' = [editing EXCEPT ![e] = r] /\ UNCHANGED <<line, product, measure>>
      BY <1>7 DEF LoadItem
    <2> HIDE DEF new
    <2>4. r.pc = "patch" /\ r.on = l /\ r.new = new
      OBVIOUS
    <2> HIDE DEF r
    <2>5. QED
      BY <2>2, <2>3, <2>4, ServedTyped
  <1>8. ASSUME NEW e \in Editors, BeginReport(e) PROVE CatalogueTyped'
    <2> DEFINE r == [pc |-> "report", rows |-> line, size |-> measure]
    <2>1. editing' = [editing EXCEPT ![e] = r] /\ UNCHANGED <<line, product, measure>>
      BY <1>8 DEF BeginReport
    <2>2. r.pc = "report" /\ r.rows = line /\ r.size = measure
      OBVIOUS
    <2>3. line \in [Lines -> BudgetItem \cup {Nothing}] /\ measure \in Sizes
      BY DEF CatalogueTyped
    <2> HIDE DEF r
    <2>4. QED
      BY <2>1, <2>2, <2>3, ServedTyped
  <1>9. ASSUME NEW e \in Editors, FinishReport(e) PROVE CatalogueTyped'
    <2>1. editing' = [editing EXCEPT ![e] = Waiting] /\ UNCHANGED <<line, product, measure>>
      BY <1>9 DEF FinishReport
    <2>2. Waiting.pc = "idle"
      BY DEF Waiting
    <2>3. QED
      BY <2>1, <2>2, ServedTyped
  <1>10. ASSUME NEW e \in Editors, ChangeScene(e) PROVE CatalogueTyped'
    BY <1>10 DEF ChangeScene, CatalogueTyped, Sizes
  <1>11. QED
    BY <1>1, <1>4, <1>5, <1>6, <1>7, <1>8, <1>9, <1>10, WriteTyped DEF CatalogueNext

\* A report that is not incomplete leaves nothing out (budget_report, _price_item), whatever
\* requests overlap while it is made.
THEOREM ReportsWhole == CatalogueSpec => []ReportIsWhole
  <1>1. CatalogueInit => CatalogueTyped
    BY DEF CatalogueInit, CatalogueTyped, Sizes, Waiting
  <1>2. QED
    BY <1>1, TypedStep, Whole, PTL DEF CatalogueSpec

-----------------------------------------------------------------------------
(***************************************************************************)
(* A dead session stays dead, and the delays of the login throttle add up, *)
(* for any number of sessions, requests and clients, whatever the ages and *)
(* delays are.                                                             *)
(*                                                                         *)
(* The argument.  A row, once there, is there for good and so is its       *)
(* revocation, because a request writes back the one column it changed     *)
(* and not the row it read; and no stamp, written or still to be written,  *)
(* is later than the last request that was let through (Honest), so that   *)
(* a late stamp cannot make a session look younger than it is.  A client   *)
(* that is not blocked has served the sum of its delays, so that the next  *)
(* failure adds one; that the sum exists (Held is a recursive function) is *)
(* shown by its least counterexample.                                      *)
(***************************************************************************)

SessionRow == [there : BOOLEAN, created : Nat, revoked : BOOLEAN, seen : Nat]

Serving == [step : {"none", "touch", "body"}, cookie : Cookies \cup {"none"}, at : Nat,
            row : SessionRow]

SessionShape ==
  /\ now \in Nat
  /\ session \in [Cookies -> SessionRow]
  /\ serving \in [Requests -> Serving]
  /\ activeAt \in [Cookies -> Nat]

\* a request that was let through belongs to a session, one that was logged out is
\* there and revoked
SessionKnown ==
  /\ \A q \in Requests :
       serving[q].step # "none" => serving[q].cookie \in Cookies /\ session[serving[q].cookie].there
  /\ \A k \in loggedOut : session[k].there /\ session[k].revoked

\* no stamp is from after the last request of the session
Honest ==
  /\ \A k \in Cookies : session[k].there => session[k].seen <= activeAt[k] /\ activeAt[k] <= now
  /\ \A q \in Requests : serving[q].step = "touch" => serving[q].at <= activeAt[serving[q].cookie]

SessionInv == SessionShape /\ loggedOut \subseteq Cookies /\ SessionKnown /\ Honest

-----------------------------------------------------------------------------
\* Signing in: a cookie that is new has no request and was never logged out.
LEMMA LoginOK ==
  ASSUME SessionInv, NEW c \in Clients, NEW k \in Cookies, Login(c, k)
  PROVE  SessionInv'
  <1> DEFINE row == [there |-> TRUE, created |-> now, revoked |-> FALSE, seen |-> now]
  <1>1. row \in SessionRow
    BY DEF SessionInv, SessionShape, SessionRow
  <1>2. session' = [session EXCEPT ![k] = row] /\ activeAt' = [activeAt EXCEPT ![k] = now]
    BY DEF Login
  <1>3. UNCHANGED <<now, serving, loggedOut>> /\ ~session[k].there
    BY DEF Login
  <1>4. /\ session' \in [Cookies -> SessionRow] /\ activeAt' \in [Cookies -> Nat]
        /\ session'[k] = row /\ activeAt'[k] = now
        /\ \A x \in Cookies \ {k} : session'[x] = session[x] /\ activeAt'[x] = activeAt[x]
    BY <1>1, <1>2 DEF SessionInv, SessionShape
  <1>5. SessionShape'
    BY <1>3, <1>4 DEF SessionInv, SessionShape
  <1>6. SessionKnown'
    BY <1>3, <1>4 DEF SessionInv, SessionKnown
  <1>7. Honest'
    BY <1>3, <1>4 DEF SessionInv, SessionShape, SessionKnown, Honest
  <1>8. QED
    BY <1>3, <1>5, <1>6, <1>7 DEF SessionInv

\* Letting a request through stamps the session now.
LEMMA AdmitOK ==
  ASSUME SessionInv, NEW q \in Requests, NEW k \in Cookies, Admit(q, k)
  PROVE  SessionInv' /\ session[k].there /\ k \notin loggedOut
         /\ now < session[k].created + MaxAge
         /\ (IdleTtl > 0 => now - activeAt[k] < IdleTtl)
  <1> DEFINE r == [step |-> "touch", cookie |-> k, at |-> now, row |-> session[k]]
  <1>1. session[k] \in SessionRow /\ now \in Nat /\ activeAt[k] \in Nat
    BY DEF SessionInv, SessionShape
  <1>2. r \in Serving
    BY <1>1 DEF Serving
  <1>3. serving' = [serving EXCEPT ![q] = r] /\ activeAt' = [activeAt EXCEPT ![k] = now]
    BY DEF Admit
  <1>4. UNCHANGED <<now, session, loggedOut>>
    BY DEF Admit
  <1>5. /\ session[k].there /\ ~session[k].revoked
        /\ ~(session[k].created + MaxAge <= now)
        /\ ~(IdleTtl > 0 /\ now - session[k].seen >= IdleTtl)
    BY DEF Admit, Expired, IdleTooLong
  <1>6. /\ serving' \in [Requests -> Serving] /\ activeAt' \in [Cookies -> Nat]
        /\ serving'[q] = r /\ activeAt'[k] = now
        /\ \A x \in Requests \ {q} : serving'[x] = serving[x]
        /\ \A x \in Cookies \ {k} : activeAt'[x] = activeAt[x]
    BY <1>1, <1>2, <1>3 DEF SessionInv, SessionShape
  <1>7. SessionShape'
    BY <1>4, <1>6 DEF SessionInv, SessionShape
  <1>8. SessionKnown'
    BY <1>4, <1>5, <1>6 DEF SessionInv, SessionKnown
  <1>9. Honest'
    <2>1. \A x \in Cookies : session[x].there => activeAt[x] <= activeAt'[x] /\ activeAt'[x] <= now
      BY <1>1, <1>6 DEF SessionInv, Honest
    <2>2. \A x \in Cookies : session'[x].there => session'[x].seen <= activeAt'[x]
      BY <1>4, <1>6, <2>1 DEF SessionInv, SessionShape, Honest, SessionRow
    <2>3. \A x \in Requests : serving'[x].step = "touch" =>
            serving'[x].at <= activeAt'[serving'[x].cookie]
      <3> SUFFICES ASSUME NEW x \in Requests, serving'[x].step = "touch"
                   PROVE  serving'[x].at <= activeAt'[serving'[x].cookie]
        OBVIOUS
      <3>1. CASE x = q
        BY <1>1, <1>6, <3>1
      <3>2. CASE x # q
        <4>1. serving'[x] = serving[x] /\ serving[x] \in Serving
          BY <1>6, <3>2 DEF SessionInv, SessionShape
        <4>2. serving[x].cookie \in Cookies /\ session[serving[x].cookie].there
          BY <4>1 DEF SessionInv, SessionKnown
        <4>3. serving[x].at <= activeAt[serving[x].cookie]
          BY <4>1 DEF SessionInv, Honest
        <4>4. serving[x].at \in Nat /\ activeAt[serving[x].cookie] \in Nat
              /\ activeAt'[serving[x].cookie] \in Nat
          BY <1>6, <4>1, <4>2 DEF SessionInv, SessionShape, Serving
        <4>5. QED
          BY <2>1, <4>1, <4>2, <4>3, <4>4
      <3>3. QED
        BY <3>1, <3>2
    <2>4. QED
      BY <1>4, <2>1, <2>2, <2>3 DEF Honest
  <1>10. k \notin loggedOut
    BY <1>5 DEF SessionInv, SessionKnown
  <1>11. IdleTtl > 0 => now - activeAt[k] < IdleTtl
    BY <1>1, <1>5, SessionsAssumption DEF SessionInv, Honest, SessionRow
  <1>12. now < session[k].created + MaxAge
    BY <1>1, <1>5, SessionsAssumption DEF SessionRow
  <1>13. QED
    BY <1>4, <1>5, <1>7, <1>8, <1>9, <1>10, <1>11, <1>12 DEF SessionInv

\* The stamp goes into the column of the row that is there.
LEMMA TouchOK ==
  ASSUME SessionInv, NEW q \in Requests, Touch(q)
  PROVE  SessionInv'
  <1> DEFINE r == serving[q]
  <1>1. r \in Serving /\ r.step = "touch" /\ r.cookie \in Cookies /\ session[r.cookie] \in SessionRow
    BY DEF SessionInv, SessionShape, SessionKnown, Touch, Serving
  <1>2. /\ session' = [session EXCEPT ![r.cookie] = [@ EXCEPT !.seen = r.at]]
        /\ serving' = [serving EXCEPT ![q] = [@ EXCEPT !.step = "body"]]
        /\ UNCHANGED <<now, activeAt, loggedOut>>
    BY DEF Touch, ghosts
  <1>3. /\ session'[r.cookie] \in SessionRow
        /\ session'[r.cookie].there = session[r.cookie].there
        /\ session'[r.cookie].revoked = session[r.cookie].revoked
        /\ session'[r.cookie].seen = r.at
        /\ \A x \in Cookies \ {r.cookie} : session'[x] = session[x]
        /\ session' \in [Cookies -> SessionRow]
    BY <1>1, <1>2 DEF SessionInv, SessionShape, SessionRow, Serving
  <1>4. /\ serving'[q] \in Serving /\ serving'[q].step = "body"
        /\ serving'[q].cookie = r.cookie
        /\ \A x \in Requests \ {q} : serving'[x] = serving[x]
        /\ serving' \in [Requests -> Serving]
    BY <1>1, <1>2 DEF SessionInv, SessionShape, Serving
  <1> HIDE DEF r
  <1>5. SessionShape'
    BY <1>2, <1>3, <1>4 DEF SessionInv, SessionShape
  <1>6. SessionKnown'
    BY <1>1, <1>2, <1>3, <1>4 DEF SessionInv, SessionKnown, r
  <1>7. Honest'
    <2>1. r.at <= activeAt[r.cookie]
      BY <1>1 DEF SessionInv, Honest, r
    <2>2. QED
      BY <1>1, <1>2, <1>3, <1>4, <2>1 DEF SessionInv, Honest
  <1>8. QED
    BY <1>2, <1>5, <1>6, <1>7 DEF SessionInv

\* A request ends, with a logout or without.
LEMMA EndOK ==
  ASSUME SessionInv, NEW q \in Requests, Respond(q) \/ Logout(q)
  PROVE  SessionInv'
  <1>1. Unbusy \in Serving /\ Unbusy.step = "none"
    BY DEF Unbusy, NoRow, Serving, SessionRow
  <1>2. serving' = [serving EXCEPT ![q] = Unbusy] /\ UNCHANGED <<now, activeAt>>
    BY DEF Respond, Logout, ghosts
  <1>3. /\ serving' \in [Requests -> Serving] /\ serving'[q].step = "none"
        /\ \A x \in Requests \ {q} : serving'[x] = serving[x]
    BY <1>1, <1>2 DEF SessionInv, SessionShape
  <1>4. CASE Respond(q)
    <2>1. UNCHANGED <<session, loggedOut>>
      BY <1>4 DEF Respond, ghosts
    <2>2. QED
      BY <1>2, <1>3, <2>1 DEF SessionInv, SessionShape, SessionKnown, Honest
  <1>5. CASE Logout(q)
    <2> DEFINE k == serving[q].cookie
    <2>1. k \in Cookies /\ session[k] \in SessionRow /\ session[k].there
      BY <1>5 DEF SessionInv, SessionShape, SessionKnown, Logout
    <2>2. /\ session' = [session EXCEPT ![k] = [@ EXCEPT !.revoked = TRUE]]
          /\ loggedOut' = loggedOut \cup {k}
      BY <1>5 DEF Logout
    <2>3. /\ session'[k] \in SessionRow /\ session'[k].there /\ session'[k].revoked
          /\ session'[k].seen = session[k].seen
          /\ \A x \in Cookies \ {k} : session'[x] = session[x]
          /\ session' \in [Cookies -> SessionRow]
      BY <2>1, <2>2 DEF SessionInv, SessionShape, SessionRow
    <2> HIDE DEF k
    <2>4. SessionShape'
      BY <1>2, <1>3, <2>3 DEF SessionInv, SessionShape
    <2>5. SessionKnown'
      BY <1>3, <2>1, <2>2, <2>3 DEF SessionInv, SessionKnown
    <2>6. Honest'
      BY <1>2, <1>3, <2>1, <2>3 DEF SessionInv, Honest
    <2>7. QED
      BY <2>1, <2>2, <2>4, <2>5, <2>6 DEF SessionInv
  <1>6. QED
    BY <1>4, <1>5

\* The process restarts, the clock ticks, a password is wrong.
LEMMA OthersOK ==
  ASSUME SessionInv, Reboot \/ Tick \/ (\E c \in Clients : LoginFails(c))
  PROVE  SessionInv'
  <1>1. CASE Reboot
    <2>1. UNCHANGED <<now, session, activeAt, loggedOut>> /\ serving' = [q \in Requests |-> Unbusy]
      BY <1>1 DEF Reboot, ghosts
    <2>2. Unbusy \in Serving /\ Unbusy.step = "none"
      BY DEF Unbusy, NoRow, Serving, SessionRow
    <2>3. QED
      BY <2>1, <2>2 DEF SessionInv, SessionShape, SessionKnown, Honest
  <1>2. CASE Tick
    <2>1. now' = now + 1 /\ UNCHANGED <<session, serving, activeAt, loggedOut>>
      BY <1>2 DEF Tick, ghosts
    <2>2. QED
      BY <2>1 DEF SessionInv, SessionShape, SessionKnown, Honest
  <1>3. CASE \E c \in Clients : LoginFails(c)
    <2>1. UNCHANGED <<now, session, serving, activeAt, loggedOut>>
      BY <1>3 DEF LoginFails
    <2>2. QED
      BY <2>1 DEF SessionInv, SessionShape, SessionKnown, Honest
  <1>4. QED
    BY <1>1, <1>2, <1>3

-----------------------------------------------------------------------------
\* Only Admit lets a request through.
LEMMA SessionStepOK ==
  ASSUME SessionInv, [SessionsNext]_sessionVars
  PROVE  SessionInv' /\ [OnlyLiveAdmitted]_sessionVars
  <1>1. CASE UNCHANGED sessionVars
    BY <1>1 DEF sessionVars, ghosts, SessionInv, SessionShape, SessionKnown, Honest
  <1>2. ASSUME NEW q \in Requests, NEW k \in Cookies, Admit(q, k)
        PROVE  SessionInv' /\ OnlyLiveAdmitted
    <2>1. serving' = [serving EXCEPT ![q] =
                        [step |-> "touch", cookie |-> k, at |-> now, row |-> session[k]]]
      BY <1>2 DEF Admit
    <2>2. \A p \in Requests, x \in Cookies : Admitted(p, x) => x = k
      BY <2>1 DEF Admitted, SessionInv, SessionShape
    <2>3. QED
      BY <1>2, <2>2, AdmitOK DEF OnlyLiveAdmitted
  <1>3. ASSUME \A q \in Requests : serving[q].step = "none" => serving'[q].step # "touch"
        PROVE  OnlyLiveAdmitted
    BY <1>3 DEF OnlyLiveAdmitted, Admitted
  <1>4. ASSUME NEW c \in Clients, NEW k \in Cookies, Login(c, k)
        PROVE  SessionInv' /\ OnlyLiveAdmitted
    BY <1>4, <1>3, LoginOK DEF Login
  <1>5. ASSUME NEW q \in Requests, Touch(q)
        PROVE  SessionInv' /\ OnlyLiveAdmitted
    BY <1>5, <1>3, TouchOK DEF Touch, SessionInv, SessionShape, Serving
  <1>6. ASSUME NEW q \in Requests, Respond(q) \/ Logout(q)
        PROVE  SessionInv' /\ OnlyLiveAdmitted
    <2>1. serving' = [serving EXCEPT ![q] = Unbusy]
      BY <1>6 DEF Respond, Logout
    <2>2. QED
      BY <1>6, <1>3, <2>1, EndOK DEF SessionInv, SessionShape, Unbusy
  <1>7. ASSUME Reboot \/ Tick \/ (\E c \in Clients : LoginFails(c))
        PROVE  SessionInv' /\ OnlyLiveAdmitted
    BY <1>7, <1>3, OthersOK DEF Reboot, Tick, LoginFails, Unbusy
  <1>8. QED
    BY <1>1, <1>2, <1>4, <1>5, <1>6, <1>7 DEF SessionsNext

\* At first there is nothing.
LEMMA SessionInitOK == SessionsInit => SessionInv
  <1>1. NoRow \in SessionRow /\ ~NoRow.there
    BY DEF NoRow, SessionRow
  <1>2. Unbusy \in Serving /\ Unbusy.step = "none"
    BY <1>1 DEF Unbusy, NoRow, Serving, SessionRow
  <1>3. QED
    BY <1>1, <1>2 DEF SessionsInit, SessionInv, SessionShape, SessionKnown, Honest

\* What requests read and have yet to write agrees with the rows.
THEOREM StampsHonest == SessionsSpec => []SessionInv
  <1>1. SessionInv /\ [SessionsNext]_sessionVars => SessionInv'
    BY SessionStepOK
  <1>2. QED
    BY <1>1, SessionInitOK, PTL DEF SessionsSpec

\* A session that was logged out, has reached its age or was idle for too long lets no
\* request through again (require_owner).
THEOREM DeadForGood == SessionsSpec => DeadStaysDead
  <1>1. SessionInv /\ [SessionsNext]_sessionVars => [OnlyLiveAdmitted]_sessionVars
    BY SessionStepOK
  <1>2. QED
    BY <1>1, StampsHonest, PTL DEF SessionsSpec, DeadStaysDead
-----------------------------------------------------------------------------
(* The throttle.  What a client has been held off, Held, is the sum of the *)
(* delays: that there is such a function takes an argument by the least    *)
(* number that would be without one.                                       *)

LEMMA Smallest ==
  ASSUME NEW T, T \subseteq Nat, T # {}
  PROVE  \E x \in T : \A y \in T : x <= y
  <1> DEFINE Less == {p \in Nat \X Nat : p[1] < p[2]}
  <1>1. IsWellFoundedOn(Less, Nat)
    BY NatLessThanWellFounded DEF OpToRel
  <1>2. PICK x \in T : \A y \in T : ~(<<y, x>> \in Less)
    <2> HIDE DEF Less
    <2>1. QED
      BY <1>1, WFMin
  <1>3. \A y \in T : ~(y < x)
    BY <1>2
  <1> HIDE DEF Less
  <1>4. QED
    BY <1>3

LEMMA DelayType == \A n \in Nat \ {0} : Delay(n) \in Nat
  <1> SUFFICES ASSUME NEW n \in Nat \ {0} PROVE Delay(n) \in Nat
    OBVIOUS
  <1>1. Least(n - 1, 5) \in 0..5
    BY DEF Least
  <1>2. ASSUME NEW k \in 0..5
        PROVE  2 ^ k \in Nat
    <2>1. 2 ^ 0 \in Nat /\ 2 ^ 1 \in Nat /\ 2 ^ 2 \in Nat /\ 2 ^ 3 \in Nat /\ 2 ^ 4 \in Nat
          /\ 2 ^ 5 \in Nat
      OBVIOUS
    <2>2. k = 0 \/ k = 1 \/ k = 2 \/ k = 3 \/ k = 4 \/ k = 5
      OBVIOUS
    <2>3. CASE k = 0
      BY <2>1, <2>3
    <2>4. CASE k = 1
      BY <2>1, <2>4
    <2>5. CASE k = 2
      BY <2>1, <2>5
    <2>6. CASE k = 3
      BY <2>1, <2>6
    <2>7. CASE k = 4
      BY <2>1, <2>7
    <2>8. CASE k = 5
      BY <2>1, <2>8
    <2>9. QED
      BY <2>2, <2>3, <2>4, <2>5, <2>6, <2>7, <2>8
  <1>3. 2 ^ Least(n - 1, 5) \in Nat
    BY <1>1, <1>2
  <1>4. QED
    BY <1>3, SessionsAssumption DEF Delay, Least

\* g adds up the delays of the first n failures
Sums(g, n) ==
  /\ DOMAIN g = 0..n
  /\ g[0] = 0
  /\ \A i \in 1..n : g[i] = g[i - 1] + Delay(i)

LEMMA SumsExist == \A n \in Nat : \E g : Sums(g, n)
  <1> DEFINE Without == {n \in Nat : ~(\E g : Sums(g, n))}
  <1>1. SUFFICES ASSUME Without # {} PROVE FALSE
    OBVIOUS
  <1>2. PICK m \in Without : \A n \in Without : m <= n
    BY <1>1, Smallest
  <1>3. m \in Nat /\ ~(\E g : Sums(g, m)) /\ \A n \in Nat : n < m => \E g : Sums(g, n)
    BY <1>2
  <1>4. CASE m = 0
    <2>1. Sums([i \in 0..0 |-> 0], 0)
      BY DEF Sums
    <2>2. QED
      BY <1>3, <1>4, <2>1
  <1>5. CASE m # 0
    <2>1. m - 1 \in Nat /\ m - 1 < m
      BY <1>3, <1>5
    <2>2. PICK g : Sums(g, m - 1)
      BY <1>3, <2>1
    <2> DEFINE f == [i \in 0..m |-> IF i = m THEN g[m - 1] + Delay(m) ELSE g[i]]
    <2>3. Sums(f, m)
      <3>1. DOMAIN f = 0..m /\ f[0] = 0
        BY <1>3, <1>5, <2>2 DEF Sums
      <3>2. ASSUME NEW i \in 1..m
            PROVE  f[i] = f[i - 1] + Delay(i)
        <4>1. f[i - 1] = g[i - 1] /\ i - 1 \in 0..(m - 1)
          BY <1>3, <3>2
        <4>2. CASE i = m
          BY <1>3, <1>5, <4>1, <4>2
        <4>3. CASE i # m
          <5>1. i \in 1..(m - 1)
            BY <1>3, <4>3
          <5>2. g[i] = g[i - 1] + Delay(i)
            BY <2>2, <5>1 DEF Sums
          <5>3. f[i] = g[i]
            BY <1>3, <4>3
          <5>4. QED
            BY <4>1, <5>2, <5>3
        <4>4. QED
          BY <4>2, <4>3
      <3> HIDE DEF f
      <3>3. QED
        BY <3>1, <3>2 DEF Sums
    <2>4. QED
      BY <1>3, <2>3
  <1>6. QED
    BY <1>4, <1>5

\* two such functions agree, and on numbers
LEMMA SumsAgree ==
  ASSUME NEW m \in Nat, NEW n \in Nat, NEW f, NEW g, Sums(f, m), Sums(g, n)
  PROVE  \A i \in Nat : i <= m /\ i <= n => f[i] = g[i] /\ f[i] \in Nat
  <1> DEFINE Apart == {i \in Nat : i <= m /\ i <= n /\ ~(f[i] = g[i] /\ f[i] \in Nat)}
  <1>1. SUFFICES ASSUME Apart # {} PROVE FALSE
    OBVIOUS
  <1>2. PICK k \in Apart : \A i \in Apart : k <= i
    BY <1>1, Smallest
  <1>3. k \in Nat /\ k <= m /\ k <= n /\ ~(f[k] = g[k] /\ f[k] \in Nat)
    BY <1>2
  <1>4. k # 0
    BY <1>3 DEF Sums
  <1>5. k - 1 \in Nat /\ k - 1 <= m /\ k - 1 <= n /\ k - 1 \notin Apart
    <2>1. k - 1 \in Nat /\ k - 1 <= m /\ k - 1 <= n /\ ~(k <= k - 1)
      BY <1>3, <1>4
    <2> HIDE DEF Apart
    <2>2. QED
      BY <1>2, <2>1
  <1>6. f[k - 1] = g[k - 1] /\ f[k - 1] \in Nat
    BY <1>5
  <1>7. f[k] = f[k - 1] + Delay(k) /\ g[k] = g[k - 1] + Delay(k)
    <2>1. k \in 1..m /\ k \in 1..n
      BY <1>3, <1>4
    <2>2. QED
      BY <2>1 DEF Sums
  <1>8. Delay(k) \in Nat
    BY <1>3, <1>4, DelayType
  <1>9. QED
    BY <1>3, <1>6, <1>7, <1>8

LEMMA HeldAddsUp ==
  /\ Held[0] = 0
  /\ \A n \in Nat : Held[n] \in Nat /\ Held[n + 1] = Held[n] + Delay(n + 1)
  <1> DEFINE sums(n) == CHOOSE g : Sums(g, n)
             H == [n \in Nat |-> sums(n)[n]]
  <1>1. \A n \in Nat : Sums(sums(n), n)
    BY SumsExist
  <1> HIDE DEF sums
  <1>2. H[0] = 0
    BY <1>1 DEF Sums
  <1>3. ASSUME NEW n \in Nat
        PROVE  H[n] \in Nat /\ H[n + 1] = H[n] + Delay(n + 1)
    <2>1. Sums(sums(n), n) /\ Sums(sums(n + 1), n + 1) /\ n + 1 \in Nat
      BY <1>1
    <2>2. sums(n)[n] = sums(n + 1)[n] /\ sums(n)[n] \in Nat
      BY <2>1, SumsAgree
    <2>3. n + 1 \in 1..(n + 1) /\ (n + 1) - 1 = n
      OBVIOUS
    <2>4. sums(n + 1)[n + 1] = sums(n + 1)[n] + Delay(n + 1)
      BY <2>1, <2>3 DEF Sums
    <2>5. H[n] = sums(n)[n] /\ H[n + 1] = sums(n + 1)[n + 1]
      BY <2>1
    <2>6. QED
      BY <2>2, <2>4, <2>5
  <1>4. DOMAIN H = Nat
    OBVIOUS
  <1>5. H = [n \in Nat |-> H[n]]
    OBVIOUS
  <1> HIDE DEF H
  <1>6. ASSUME NEW n \in Nat
        PROVE  H[n] = IF n = 0 THEN 0 ELSE H[n - 1] + Delay(n)
    <2>1. CASE n = 0
      BY <1>2, <2>1
    <2>2. CASE n # 0
      <3>1. n - 1 \in Nat /\ (n - 1) + 1 = n
        BY <2>2
      <3>2. H[(n - 1) + 1] = H[n - 1] + Delay((n - 1) + 1)
        BY <1>3, <3>1
      <3>3. QED
        BY <2>2, <3>1, <3>2
    <2>3. QED
      BY <2>1, <2>2
  <1>7. H = [n \in Nat |-> IF n = 0 THEN 0 ELSE H[n - 1] + Delay(n)]
    BY <1>5, <1>6
  <1>8. Held = [n \in Nat |-> IF n = 0 THEN 0 ELSE Held[n - 1] + Delay(n)]
    BY <1>7 DEF Held
  <1>9. \A n \in Nat : Held[n] = IF n = 0 THEN 0 ELSE Held[n - 1] + Delay(n)
    BY <1>8
  <1>10. ASSUME NEW n \in Nat
         PROVE  Held[n] \in Nat
    <2> DEFINE f == [i \in 0..n |-> Held[i]]
    <2>1. Sums(f, n)
      <3>1. DOMAIN f = 0..n /\ f[0] = 0
        BY <1>9
      <3>2. ASSUME NEW i \in 1..n
            PROVE  f[i] = f[i - 1] + Delay(i)
        <4>1. i \in Nat /\ i # 0 /\ i \in 0..n /\ i - 1 \in 0..n
          OBVIOUS
        <4>2. Held[i] = Held[i - 1] + Delay(i)
          BY <1>9, <4>1
        <4>3. QED
          BY <4>1, <4>2
      <3> HIDE DEF f
      <3>3. QED
        BY <3>1, <3>2 DEF Sums
    <2>2. f[n] = Held[n]
      OBVIOUS
    <2> HIDE DEF f
    <2>3. QED
      BY <2>1, <2>2, SumsAgree
  <1>11. ASSUME NEW n \in Nat
         PROVE  Held[n + 1] = Held[n] + Delay(n + 1)
    <2>1. n + 1 \in Nat /\ n + 1 # 0 /\ (n + 1) - 1 = n
      OBVIOUS
    <2>2. Held[n + 1] = Held[(n + 1) - 1] + Delay(n + 1)
      BY <1>9, <2>1
    <2>3. QED
      BY <2>1, <2>2
  <1>12. Held[0] = 0
    BY <1>9
  <1>13. QED
    BY <1>10, <1>11, <1>12

Throttle ==
  /\ now \in Nat
  /\ attempts \in [Clients -> [failures : Nat, until : Nat]]
  /\ firstAt \in [Clients -> Nat]
  /\ ThrottleAddsUp

LEMMA FailureAdds ==
  ASSUME Throttle, NEW c \in Clients, LoginFails(c)
  PROVE  Throttle'
  <1> DEFINE n == attempts[c].failures + 1
             a == [failures |-> n, until |-> now + Delay(n)]
             first == IF n = 1 THEN now ELSE firstAt[c]
  <1>1. /\ now' = now /\ ~(attempts[c].until > now)
        /\ attempts' = [attempts EXCEPT ![c] = a]
        /\ firstAt' = IF n = 1 THEN [firstAt EXCEPT ![c] = now] ELSE firstAt
    BY DEF LoginFails, Blocked
  <1>2. /\ attempts[c].failures \in Nat /\ attempts[c].until \in Nat /\ firstAt[c] \in Nat
        /\ now \in Nat /\ n \in Nat \ {0} /\ Delay(n) \in Nat
    BY DelayType DEF Throttle
  <1>3. a \in [failures : Nat, until : Nat] /\ first \in Nat
    BY <1>2
  <1>4. /\ attempts' \in [Clients -> [failures : Nat, until : Nat]]
        /\ firstAt' \in [Clients -> Nat] /\ firstAt'[c] = first /\ attempts'[c] = a
        /\ \A d \in Clients \ {c} : attempts'[d] = attempts[d] /\ firstAt'[d] = firstAt[d]
    BY <1>1, <1>3 DEF Throttle
  <1>5. /\ Held[attempts[c].failures] \in Nat
        /\ Held[n] = Held[attempts[c].failures] + Delay(n)
    BY <1>2, HeldAddsUp
  <1>6. a.until - first >= Held[a.failures]
    <2>1. CASE attempts[c].failures = 0
      <3>1. Held[n] = Delay(n) /\ first = now
        BY <1>2, <1>5, <2>1, HeldAddsUp
      <3>2. QED
        BY <1>2, <3>1
    <2>2. CASE attempts[c].failures > 0
      <3>1. first = firstAt[c]
        BY <1>2, <2>2
      <3>2. attempts[c].until - firstAt[c] >= Held[attempts[c].failures]
        BY <2>2 DEF Throttle, ThrottleAddsUp
      <3>3. attempts[c].until <= now
        BY <1>1, <1>2
      <3>4. QED
        BY <1>2, <1>5, <3>1, <3>2, <3>3
    <2>3. QED
      BY <1>2, <2>1, <2>2
  <1> HIDE DEF a, first
  <1>7. ThrottleAddsUp'
    BY <1>4, <1>6 DEF Throttle, ThrottleAddsUp
  <1>8. QED
    BY <1>1, <1>2, <1>4, <1>7 DEF Throttle

\* A client that keeps failing has been held off for all delays since its first failure
\* (LoginThrottle), however often others fail or sign in and whenever it tries.
THEOREM ThrottleHolds == SessionsSpec => []ThrottleAddsUp
  <1>1. SessionsInit => Throttle
    BY DEF SessionsInit, Throttle, ThrottleAddsUp, NoFailures
  <1>2. ASSUME Throttle, [SessionsNext]_sessionVars
        PROVE  Throttle'
    <2>1. CASE UNCHANGED <<attempts, firstAt, now>>
      BY <1>2, <2>1 DEF Throttle, ThrottleAddsUp
    <2>2. ASSUME NEW c \in Clients, NEW k \in Cookies, Login(c, k)
          PROVE  Throttle'
      <3>1. /\ attempts' = [attempts EXCEPT ![c] = [failures |-> 0, until |-> 0]]
            /\ now' = now /\ firstAt' = firstAt
        BY <2>2 DEF Login, NoFailures
      <3>2. QED
        BY <1>2, <3>1 DEF Throttle, ThrottleAddsUp
    <2>3. CASE Reboot
      <3>1. /\ attempts' = [c \in Clients |-> [failures |-> 0, until |-> 0]]
            /\ now' = now /\ firstAt' = firstAt
        BY <2>3 DEF Reboot, NoFailures, ghosts
      <3>2. QED
        BY <1>2, <3>1 DEF Throttle, ThrottleAddsUp
    <2>4. CASE Tick
      BY <1>2, <2>4 DEF Tick, ghosts, Throttle, ThrottleAddsUp
    <2>5. QED
      BY <1>2, <2>1, <2>2, <2>3, <2>4, FailureAdds
         DEF SessionsNext, Admit, Touch, Respond, Logout, sessionVars, ghosts
  <1>3. Throttle => ThrottleAddsUp
    BY DEF Throttle
  <1>4. QED
    BY <1>1, <1>2, <1>3, PTL DEF SessionsSpec

-----------------------------------------------------------------------------
(***************************************************************************)
(* The lock on the parent of a revision stands over linear histories only, *)
(* whichever tables hold rows.                                             *)
(*                                                                         *)
(* The argument.  The lock is there from the first migration to the        *)
(* fourteenth and never after, because only the fifteenth touches the      *)
(* constraints of the revisions (Untouched), and this one goes back only   *)
(* if no revision has two children; and none can get a second child while  *)
(* the lock is there.                                                      *)
(***************************************************************************)

Revisions == "scene_revisions"

\* a migration from s to u leaves the constraints of the revisions alone
Untouched(s, u) ==
  Revisions \in DOMAIN s => Revisions \in DOMAIN u /\ u[Revisions].unique = s[Revisions].unique

ParentLocked ==
  /\ at \in 0..Latest
  /\ at = 0 => Revisions \notin rows /\ Revisions \notin DOMAIN tables
  /\ at > 0 => Revisions \in DOMAIN tables
  /\ at \in 1..14 => ParentLock \subseteq tables[Revisions].unique
  /\ at \in 15..Latest => ParentLock \cap tables[Revisions].unique = {}
  /\ forked \in BOOLEAN
  /\ at < 15 => ~forked

\* Columns, constraints and indexes of other tables added.
LEMMA AddUntouched ==
  ASSUME NEW s, NEW t, NEW req, NEW null, NEW unique, NEW index,
         t # Revisions
  PROVE  Untouched(s, Add(s, t, req, null, unique, index))
  BY DEF Untouched, Add

\* Columns, constraints and indexes of other tables taken away.
LEMMA RemoveUntouched ==
  ASSUME NEW s, NEW t, NEW cols, NEW unique, NEW index, t # Revisions
  PROVE  Untouched(s, Remove(s, t, cols, unique, index))
  BY DEF Untouched, Remove

\* A new table.
LEMMA CreateUntouched ==
  ASSUME NEW s, NEW t, NEW def, t # Revisions
  PROVE  Untouched(s, Create(s, t, def))
  BY DEF Untouched, Create, With

\* Tables dropped, the revisions not among them.
LEMMA DropUntouched ==
  ASSUME NEW s, NEW order, \A i \in 1..Len(order) : order[i] # Revisions
  PROVE  Untouched(s, Drop(s, order))
  <1> DEFINE gone(i) == {order[k] : k \in 1..i}
  <1>1. Revisions \notin gone(Len(order))
    OBVIOUS
  <1>2. Drop(s, order) = s \/ Drop(s, order) = [t \in DOMAIN s \ gone(Len(order)) |-> s[t]]
    BY DEF Drop
  <1> HIDE DEF gone
  <1>3. QED
    BY <1>1, <1>2 DEF Untouched

\* One migration step after the other.
LEMMA UntouchedTwice ==
  ASSUME NEW s, NEW t, NEW u, Untouched(s, t), Untouched(t, u)
  PROVE  Untouched(s, u)
  BY DEF Untouched

\* The migrations that leave the constraints of the revisions alone, there ...
LEMMA UpgradeUntouched ==
  ASSUME NEW s, NEW n \in 2..Latest, n # 15
  PROVE  Untouched(s, Upgraded(n, s))
  <1>1. Untouched(s, Up0002(s))
    <2> DEFINE a == Add(s, "assets", {"role", "metadata_json", "source_asset_ids"},
                        {"duplicate_of_asset_id"}, {}, {})
    <2>1. Untouched(s, a)
      BY AddUntouched DEF Revisions
    <2> HIDE DEF a
    <2>2. Untouched(a, Add(a, "jobs", {"progress", "runtime_provenance"},
                           {"idempotency_key", "correlation_id"}, JobsKey, {}))
      BY AddUntouched DEF Revisions
    <2>3. QED
      BY <2>1, <2>2, UntouchedTwice DEF Up0002, a
  <1>2. /\ Untouched(s, Up0003(s)) /\ Untouched(s, Up0009(s)) /\ Untouched(s, Up0010(s))
        /\ Untouched(s, Up0011(s)) /\ Untouched(s, Up0016(s))
    <2>1. Untouched(s, Up0003(s)) /\ Untouched(s, Up0009(s))
      BY AddUntouched DEF Up0003, Up0009, Revisions
    <2>2. Untouched(s, Up0010(s)) /\ Untouched(s, Up0011(s)) /\ Untouched(s, Up0016(s))
      BY AddUntouched, RemoveUntouched DEF Up0010, Up0011, Up0016, Revisions
    <2>3. QED
      BY <2>1, <2>2
  <1>3. ASSUME NEW t, t # Revisions, NEW def
        PROVE  Untouched(s, Create(s, t, def))
    BY <1>3, CreateUntouched
  <1>4. /\ Untouched(s, Up0004(s)) /\ Untouched(s, Up0005(s)) /\ Untouched(s, Up0006(s))
        /\ Untouched(s, Up0007(s)) /\ Untouched(s, Up0008(s))
    <2>1. Untouched(s, Up0004(s))
      BY <1>3 DEF Up0004, Revisions
    <2>2. Untouched(s, Up0005(s))
      BY <1>3 DEF Up0005, Revisions
    <2>3. Untouched(s, Up0006(s))
      BY <1>3 DEF Up0006, Revisions
    <2>4. Untouched(s, Up0007(s))
      BY <1>3 DEF Up0007, Revisions
    <2>5. Untouched(s, Up0008(s))
      BY <1>3 DEF Up0008, Revisions
    <2>6. QED
      BY <2>1, <2>2, <2>3, <2>4, <2>5
  <1>5. Untouched(s, Up0012(s)) /\ Untouched(s, Up0013(s)) /\ Untouched(s, Up0014(s))
    <2>1. Untouched(s, Up0012(s))
      BY <1>3 DEF Up0012, Revisions
    <2>2. Untouched(s, Up0013(s))
      BY <1>3 DEF Up0013, Revisions
    <2>3. Untouched(s, Up0014(s))
      BY <1>3 DEF Up0014, Revisions
    <2>4. QED
      BY <2>1, <2>2, <2>3
  <1>6. Untouched(s, Up0017(s))
    <2>1. PICK a, def, more : /\ Up0017(s) = Create(a, "deviations", more)
                              /\ a = Create(s, "progress_snapshots", def)
      BY DEF Up0017
    <2>2. Untouched(s, a)
      BY <2>1, CreateUntouched DEF Revisions
    <2>3. Untouched(a, Up0017(s))
      BY <2>1, CreateUntouched DEF Revisions
    <2>4. QED
      BY <2>2, <2>3, UntouchedTwice
  <1>7. /\ n \in 2..5 =>
             Upgraded(n, s) \in {Up0002(s), Up0003(s), Up0004(s), Up0005(s)}
        /\ n \in 6..9 =>
             Upgraded(n, s) \in {Up0006(s), Up0007(s), Up0008(s), Up0009(s)}
        /\ n \in 10..13 =>
             Upgraded(n, s) \in {Up0010(s), Up0011(s), Up0012(s), Up0013(s)}
        /\ n \in {14, 16, 17} => Upgraded(n, s) \in {Up0014(s), Up0016(s), Up0017(s)}
    BY DEF Upgraded
  <1>8. n \in 2..5 \cup 6..9 \cup 10..13 \cup {14, 16, 17}
    BY DEF Latest
  <1>9. QED
    BY <1>1, <1>2, <1>4, <1>5, <1>6, <1>7, <1>8

\* ... and back.
LEMMA DowngradeUntouched ==
  ASSUME NEW s, NEW n \in 2..Latest, n # 15
  PROVE  Untouched(s, Downgraded(n, s))
  <1>1. ASSUME NEW t, t # Revisions
        PROVE  Untouched(s, Drop(s, <<t>>))
    <2>1. \A i \in 1..Len(<<t>>) : <<t>>[i] # Revisions
      BY <1>1
    <2>2. QED
      BY <2>1, DropUntouched
  <1>2. Untouched(s, Down0002(s))
    <2> DEFINE a == Remove(s, "jobs",
                      {"runtime_provenance", "correlation_id", "progress", "idempotency_key"},
                      JobsKey, {})
    <2>1. Untouched(s, a)
      BY RemoveUntouched DEF Revisions
    <2> HIDE DEF a
    <2>2. Untouched(a, Remove(a, "assets", {"duplicate_of_asset_id", "source_asset_ids",
                                            "metadata_json", "role"}, {}, {}))
      BY RemoveUntouched DEF Revisions
    <2>3. QED
      BY <2>1, <2>2, UntouchedTwice DEF Down0002, a
  <1>3. /\ Untouched(s, Down0003(s)) /\ Untouched(s, Down0009(s)) /\ Untouched(s, Down0010(s))
        /\ Untouched(s, Down0011(s)) /\ Untouched(s, Down0016(s))
    <2>1. Untouched(s, Down0003(s)) /\ Untouched(s, Down0009(s)) /\ Untouched(s, Down0010(s))
      BY RemoveUntouched DEF Down0003, Down0009, Down0010, Revisions
    <2>2. Untouched(s, Down0011(s)) /\ Untouched(s, Down0016(s))
      BY AddUntouched, RemoveUntouched DEF Down0011, Down0016, Revisions
    <2>3. QED
      BY <2>1, <2>2
  <1>4. /\ Untouched(s, Down0004(s)) /\ Untouched(s, Down0005(s)) /\ Untouched(s, Down0006(s))
        /\ Untouched(s, Down0007(s)) /\ Untouched(s, Down0008(s))
    BY <1>1 DEF Down0004, Down0005, Down0006, Down0007, Down0008, Revisions
  <1>5. /\ Untouched(s, Down0012(s)) /\ Untouched(s, Down0013(s))
        /\ Untouched(s, Down0014(s))
    BY <1>1 DEF Down0012, Down0013, Down0014, Revisions
  <1>6. Untouched(s, Down0017(s))
    <2> DEFINE order == <<"deviations", "progress_snapshots">>
    <2>1. \A i \in 1..Len(order) : order[i] # Revisions
      BY DEF Revisions
    <2> HIDE DEF order
    <2>2. Untouched(s, Drop(s, order))
      BY <2>1, DropUntouched
    <2>3. QED
      BY <2>2 DEF order, Down0017
  <1>7. /\ n \in 2..5 =>
             Downgraded(n, s) \in {Down0002(s), Down0003(s), Down0004(s), Down0005(s)}
        /\ n \in 6..9 =>
             Downgraded(n, s) \in {Down0006(s), Down0007(s), Down0008(s), Down0009(s)}
        /\ n \in 10..13 =>
             Downgraded(n, s) \in {Down0010(s), Down0011(s), Down0012(s), Down0013(s)}
        /\ n \in {14, 16, 17} => Downgraded(n, s) \in {Down0014(s), Down0016(s), Down0017(s)}
    BY DEF Downgraded
  <1>8. n \in 2..5 \cup 6..9 \cup 10..13 \cup {14, 16, 17}
    BY DEF Latest
  <1>9. QED
    BY <1>2, <1>3, <1>4, <1>5, <1>6, <1>7, <1>8

\* The first migration makes the lock, and going back takes the table away.
LEMMA FirstMigration ==
  ASSUME NEW s
  PROVE  /\ Revisions \in DOMAIN Upgraded(1, s)
         /\ Upgraded(1, s)[Revisions].unique = ParentLock
         /\ Downgraded(1, s) = s \/ Revisions \notin DOMAIN Downgraded(1, s)
  <1>1. Upgraded(1, s) = Up0001(s) /\ Downgraded(1, s) = Down0001(s)
    BY DEF Upgraded, Downgraded
  <1>2. PICK more : /\ Up0001(s) = With(s, more) /\ Revisions \in DOMAIN more
                    /\ more[Revisions].unique = ParentLock
    BY DEF Up0001, Revisions, Table, ParentLock
  <1>3. Revisions \in DOMAIN Up0001(s) /\ Up0001(s)[Revisions].unique = ParentLock
    BY <1>2 DEF With
  <1>4. Down0001(s) = s \/ Revisions \notin DOMAIN Down0001(s)
    <2> DEFINE order == <<"auth_sessions", "workers", "jobs", "assets",
                          "design_commands", "scene_revisions", "projects">>
               gone(i) == {order[k] : k \in 1..i}
    <2>1. 6 \in 1..Len(order) /\ order[6] = Revisions
      BY DEF Revisions
    <2> HIDE DEF order
    <2>2. Revisions \in gone(Len(order))
      BY <2>1
    <2>3. \/ Drop(s, order) = s
          \/ Drop(s, order) = [t \in DOMAIN s \ gone(Len(order)) |-> s[t]]
      BY DEF Drop
    <2> HIDE DEF gone
    <2>4. QED
      BY <2>2, <2>3 DEF Down0001, order
  <1>5. QED
    BY <1>1, <1>3, <1>4

\* The fifteenth takes the lock away and, going back over a linear history, puts it
\* back; it raises otherwise.
LEMMA FifteenthMigration ==
  ASSUME NEW s, Revisions \in DOMAIN s
  PROVE  /\ \/ Upgraded(15, s) = s
            \/ /\ Revisions \in DOMAIN Upgraded(15, s)
               /\ ParentLock \cap Upgraded(15, s)[Revisions].unique = {}
         /\ \/ Downgraded(15, s) = s
            \/ /\ Revisions \in DOMAIN Downgraded(15, s) /\ ~forked
               /\ ParentLock \subseteq Downgraded(15, s)[Revisions].unique
  <1>1. Upgraded(15, s) = Up0015(s) /\ Downgraded(15, s) = Down0015(s)
    BY DEF Upgraded, Downgraded
  <1>2. \/ Up0015(s) = s
        \/ /\ Revisions \in DOMAIN Up0015(s)
           /\ ParentLock \cap Up0015(s)[Revisions].unique = {}
    <2> DEFINE a == Remove(s, Revisions, {}, ParentLock, {})
               b == Add(a, Revisions, {}, {}, {}, {<<"parent_revision_id">>})
    <2>1. Revisions \in DOMAIN a /\ a[Revisions].unique = s[Revisions].unique \ ParentLock
      BY DEF Remove
    <2> HIDE DEF a
    <2>2. Revisions \in DOMAIN b /\ b[Revisions].unique = a[Revisions].unique \cup {}
      BY <2>1 DEF Add
    <2> HIDE DEF b
    <2>3. SUFFICES ASSUME Up0015(s) # s
                   PROVE  Untouched(b, Up0015(s))
      BY <2>1, <2>2 DEF Untouched
    <2>4. PICK variants, budget :
             Up0015(s) = Create(Linked(Linked(Create(b, "scene_variants", variants),
                           "render_manifests"), "generation_manifests"),
                         "budget_items", budget)
      BY <2>3 DEF Up0015, a, b, Revisions
    <2> DEFINE c == Create(b, "scene_variants", variants)
               d == Linked(c, "render_manifests")
               e == Linked(d, "generation_manifests")
    <2>5. Untouched(b, c)
      BY CreateUntouched DEF Revisions
    <2> HIDE DEF c
    <2>6. Untouched(c, d)
      BY AddUntouched DEF Linked, Revisions
    <2> HIDE DEF d
    <2>7. Untouched(d, e)
      BY AddUntouched DEF Linked, Revisions
    <2> HIDE DEF e
    <2>8. Untouched(e, Create(e, "budget_items", budget))
      BY CreateUntouched DEF Revisions
    <2>9. QED
      BY <2>4, <2>5, <2>6, <2>7, <2>8 DEF Untouched, c, d, e
  <1>3. \/ Down0015(s) = s
        \/ /\ Revisions \in DOMAIN Down0015(s) /\ ~forked
           /\ ParentLock \subseteq Down0015(s)[Revisions].unique
    <2> DEFINE order == <<"budget_items", "scene_variants">>
               a == Drop(s, order)
               b == Unlinked(a, "render_manifests")
               c == Unlinked(b, "generation_manifests")
               d == Remove(c, Revisions, {}, {}, {<<"parent_revision_id">>})
    <2>1. \A i \in 1..Len(order) : order[i] # Revisions
      BY DEF Revisions
    <2> HIDE DEF order
    <2>2. Untouched(s, a)
      BY <2>1, DropUntouched
    <2> HIDE DEF a
    <2>3. Untouched(a, b)
      BY RemoveUntouched DEF Unlinked, Revisions
    <2> HIDE DEF b
    <2>4. Untouched(b, c)
      BY RemoveUntouched DEF Unlinked, Revisions
    <2> HIDE DEF c
    <2>5. Revisions \in DOMAIN c
      BY <2>2, <2>3, <2>4 DEF Untouched
    <2>6. Revisions \in DOMAIN d
      BY <2>5 DEF Remove
    <2> HIDE DEF d
    <2>7. \/ Down0015(s) = s
          \/ Down0015(s) = Add(d, Revisions, {}, {}, ParentLock, {}) /\ ~forked
      BY DEF Down0015, a, b, c, d, order, Revisions
    <2>8. /\ Revisions \in DOMAIN Add(d, Revisions, {}, {}, ParentLock, {})
          /\ Add(d, Revisions, {}, {}, ParentLock, {})[Revisions].unique
               = d[Revisions].unique \cup ParentLock
      BY <2>6 DEF Add
    <2>9. QED
      BY <2>7, <2>8
  <1>4. QED
    BY <1>1, <1>2, <1>3

\* Every step keeps the lock and the history apart.
LEMMA ParentLockedStep ==
  ASSUME ParentLocked, [SchemaNext]_schemaVars
  PROVE  ParentLocked'
  <1>1. CASE Upgrade
    <2>1. /\ at' = at + 1 /\ tables' = Upgraded(at + 1, tables) /\ tables' # tables
          /\ at \in 0..16 /\ rows' = rows /\ forked' = forked
      BY <1>1 DEF Upgrade, ParentLocked, Latest
    <2>2. CASE at = 0
      BY <2>1, <2>2, FirstMigration DEF ParentLocked, Latest
    <2>3. CASE at = 14
      BY <2>1, <2>3, FifteenthMigration DEF ParentLocked, Latest
    <2>4. CASE at \notin {0, 14}
      <3>1. Untouched(tables, tables')
        BY <2>1, <2>4, UpgradeUntouched DEF Latest
      <3>2. QED
        BY <2>1, <2>4, <3>1 DEF Untouched, ParentLocked, Latest
    <2>5. QED
      BY <2>2, <2>3, <2>4
  <1>2. CASE Downgrade
    <2>6. forked' = (forked /\ "scene_revisions" \in rows')
      BY <1>2 DEF Downgrade
    <2>1. /\ at' = at - 1 /\ tables' = Downgraded(at, tables) /\ tables' # tables
          /\ at \in 1..17 /\ rows' = rows \cap DOMAIN tables'
          /\ forked' \in BOOLEAN /\ (forked' => forked)
      <3>1. /\ at' = at - 1 /\ tables' = Downgraded(at, tables) /\ tables' # tables
            /\ at \in 1..17 /\ rows' = rows \cap DOMAIN tables'
        BY <1>2 DEF Downgrade, ParentLocked, Latest
      <3>2. forked' \in BOOLEAN /\ (forked' => forked)
        BY <2>6, Zenon
      <3>3. QED
        BY <3>1, <3>2
    <2>2. CASE at = 1
      BY <2>1, <2>2, FirstMigration DEF ParentLocked, Latest
    <2>3. CASE at = 15
      BY <2>1, <2>3, FifteenthMigration DEF ParentLocked, Latest
    <2>4. CASE at \notin {1, 15}
      <3>1. Untouched(tables, tables')
        BY <2>1, <2>4, DowngradeUntouched DEF Latest
      <3>2. QED
        BY <2>1, <2>4, <3>1 DEF Untouched, ParentLocked, Latest
    <2>5. QED
      BY <2>2, <2>3, <2>4
  <1>3. CASE SecondChild
    <2>1. at \in 15..Latest
      BY <1>3 DEF SecondChild, ParentLocked, ParentLock, Latest, Revisions
    <2>2. QED
      BY <1>3, <2>1 DEF SecondChild, ParentLocked, Latest
  <1>4. CASE DeleteRows
    <2>1. forked' = (forked /\ "scene_revisions" \in rows')
      BY <1>4 DEF DeleteRows
    <2>2. forked' \in BOOLEAN
      BY <2>1, Zenon
    <2>3. QED
      BY <1>4, <2>2 DEF DeleteRows, ParentLocked, Latest
  <1>5. ASSUME NEW t, FirstRow(t) \/ LastRow(t)
        PROVE  ParentLocked'
    BY <1>5 DEF FirstRow, LastRow, ParentLocked
  <1>6. CASE UNCHANGED schemaVars
    BY <1>6 DEF schemaVars, ParentLocked
  <1>7. QED
    BY <1>1, <1>2, <1>3, <1>4, <1>5, <1>6 DEF SchemaNext

\* While the UNIQUE constraint on the parent of a revision stands, no revision has two
\* children, whatever upgrades, downgrades and rows led there: migration 0015 drops it
\* and its downgrade refuses to put it back over a branched history.
THEOREM LockHolds == SchemaSpec => []LockMeansLinear
  <1>1. ASSUME SchemaInit PROVE ParentLocked
    <2>1. at = 0 /\ rows = {} /\ forked = FALSE
      BY <1>1 DEF SchemaInit
    <2>2. DOMAIN tables = {}
      BY <1>1 DEF SchemaInit
    <2>3. forked \in BOOLEAN /\ ~forked
      BY <2>1, Zenon
    <2>4. at \in 0..Latest
      BY <2>1 DEF Latest
    <2>5. QED
      BY <2>1, <2>2, <2>3, <2>4 DEF ParentLocked, Latest
  <1>2. ParentLocked /\ [SchemaNext]_schemaVars => ParentLocked'
    BY ParentLockedStep
  <1>3. ParentLocked => LockMeansLinear
    BY DEF ParentLocked, LockMeansLinear, ParentLock, Latest, Revisions
  <1>4. QED
    BY <1>1, <1>2, <1>3, PTL DEF SchemaSpec

-----------------------------------------------------------------------------
(***************************************************************************)
(* The migrations build what the ORM declares, and each downgrade takes    *)
(* back its upgrade or is refused, whichever tables hold rows.             *)
(*                                                                         *)
(* The argument.  What a table looks like after n migrations is said from  *)
(* where it ends (Built): without the columns, constraints and indexes     *)
(* that a later migration adds (Later), and with those that a later one    *)
(* takes away (Former).  So the last stage is what is built, each          *)
(* migration is compared with the difference of two stages, and what is    *)
(* built serves as what is declared: the two differ in four tables, where  *)
(* a UNIQUE constraint and an index stand for one unique index.            *)
(***************************************************************************)

GenerationManifestTable == Table(
  {"id", "project_id", "job_id", "scene_revision_id", "design_revision_id", "camera_id",
   "manifest_json", "created_at"}, {"variant_id"}, {<<"job_id">>},
  Each({"project_id", "scene_revision_id", "design_revision_id", "variant_id"})
    \cup UniqueIndex("job_id"), Owned)
RenderManifestTable == Table(
  {"id", "project_id", "job_id", "scene_revision_id", "camera_id", "manifest_json",
   "created_at"}, {"design_revision_id", "variant_id"}, {<<"job_id">>},
  Each({"project_id", "scene_revision_id", "variant_id"}) \cup UniqueIndex("job_id"), Owned)
GeometryDiagnosticTable == Table(
  {"id", "project_id", "job_id", "scene_revision_id", "camera_id", "reference_asset_id",
   "generated_asset_id", "diagnostic_json", "created_at"}, {}, {<<"job_id">>},
  Each({"project_id", "scene_revision_id"}) \cup UniqueIndex("job_id"), Owned)
AuthSessionTable == Table(
  {"id", "token_hash", "csrf_token", "expires_at", "created_at"},
  {"revoked_at", "last_seen_at"}, {<<"token_hash">>},
  Each({"token_hash", "expires_at"}), {})

Built ==
  [projects |-> ProjectRow, scene_revisions |-> SceneRevisionRow,
   design_commands |-> DesignCommandRow, assets |-> AssetRow,
   product_candidates |-> ProductCandidateRow, attachments |-> AttachmentRow,
   style_profiles |-> StyleProfileRow, plan_drafts |-> PlanDraftRow,
   generation_manifests |-> GenerationManifestTable,
   render_manifests |-> RenderManifestTable,
   geometry_diagnostics |-> GeometryDiagnosticTable, jobs |-> JobRow, workers |-> WorkerRow,
   validation_reports |-> ValidationReportRow, scene_variants |-> SceneVariantRow,
   budget_items |-> BudgetItemRow, progress_snapshots |-> ProgressSnapshotRow,
   deviations |-> DeviationRow, auth_sessions |-> AuthSessionTable]

Manifests == {"render_manifests", "generation_manifests"}

\* the tables there are after n migrations
TablesAt(n) ==
  (IF n >= 1 THEN {"projects", Revisions, "design_commands", "assets", "jobs", "workers",
                   "auth_sessions"} ELSE {})
  \cup (IF n >= 4 THEN {"style_profiles"} ELSE {})
  \cup (IF n >= 5 THEN {"render_manifests"} ELSE {})
  \cup (IF n >= 6 THEN {"geometry_diagnostics"} ELSE {})
  \cup (IF n >= 7 THEN {"generation_manifests"} ELSE {})
  \cup (IF n >= 8 THEN {"plan_drafts"} ELSE {})
  \cup (IF n >= 12 THEN {"attachments"} ELSE {})
  \cup (IF n >= 13 THEN {"validation_reports"} ELSE {})
  \cup (IF n >= 14 THEN {"product_candidates"} ELSE {})
  \cup (IF n >= 15 THEN {"scene_variants", "budget_items"} ELSE {})
  \cup (IF n >= 17 THEN {"progress_snapshots", "deviations"} ELSE {})

\* the columns of t that a migration after n adds
Later(t, n) ==
  CASE t = "assets" /\ n < 2 -> {"role", "metadata_json", "source_asset_ids",
                                 "duplicate_of_asset_id"}
    [] t = "jobs" /\ n < 2 -> {"progress", "runtime_provenance", "idempotency_key",
                               "correlation_id"}
    [] t = "design_commands" /\ n < 3 -> {"model_profile", "correlation_id"}
    [] t = "auth_sessions" /\ n < 9 -> {"last_seen_at"}
    [] t \in Manifests /\ n < 15 -> {"variant_id"}
    [] t = "projects" /\ n < 16 -> {"brief_notes_json"}
    [] OTHER -> {}

\* its constraints and indexes that come after n
LaterUnique(t, n) == IF t = "jobs" /\ n < 2 THEN JobsKey ELSE {}
LaterIndex(t, n) ==
  CASE t = Revisions /\ n < 15 -> {<<"parent_revision_id">>}
    [] t \in Manifests /\ n < 15 -> {<<"variant_id">>}
    [] OTHER -> {}

\* what t has after n migrations and a later one takes away
FormerNull(t, n) == IF t = "workers" /\ n = 10 THEN Telemetry ELSE {}
FormerUnique(t, n) == IF t = Revisions /\ n < 15 THEN ParentLock ELSE {}

\* what t looks like after n migrations, seen from where it ends
Version(t, n) ==
  Table(Built[t].req \ Later(t, n),
        (Built[t].null \ Later(t, n)) \cup FormerNull(t, n),
        (Built[t].unique \ LaterUnique(t, n)) \cup FormerUnique(t, n),
        Built[t].index \ LaterIndex(t, n),
        Built[t].refs)

Stage(n) == [t \in TablesAt(n) |-> Version(t, n)]

\* Each of a set given by its elements.
LEMMA EachOf ==
  /\ \A a : Each({a}) = {<<a>>}
  /\ \A a, b : Each({a, b}) = {<<a>>, <<b>>}
  /\ \A a, b, c : Each({a, b, c}) = {<<a>>, <<b>>, <<c>>}
  /\ \A a, b, c, d : Each({a, b, c, d}) = {<<a>>, <<b>>, <<c>>, <<d>>}
  /\ \A a, b, c, d, e : Each({a, b, c, d, e}) = {<<a>>, <<b>>, <<c>>, <<d>>, <<e>>}
  BY DEF Each

\* One taken out of each, and one put in.
LEMMA EachLess ==
  /\ \A S, c : Each(S) \ {<<c>>} = Each(S \ {c})
  /\ \A S, c : Each(S) \cup {<<c>>} = Each(S \cup {c})
  BY DEF Each

\* A unique index is not one of a column's plain ones.
LEMMA UniqueApart == \A a, b : UniqueIndex(a) \ {<<b>>} = UniqueIndex(a)
  <1> SUFFICES ASSUME NEW a, NEW b PROVE <<"UNIQUE", a>> # <<b>>
    BY DEF UniqueIndex
  <1>1. Len(<<"UNIQUE", a>>) = 2 /\ Len(<<b>>) = 1
    OBVIOUS
  <1>2. QED
    BY <1>1

\* Each table that is built is a table.
LEMMA BuiltTables ==
  /\ DOMAIN Built = TablesAt(Latest)
  /\ \A t \in DOMAIN Built :
       /\ Built[t] = Table(Built[t].req, Built[t].null, Built[t].unique,
                              Built[t].index, Built[t].refs)
       /\ \A r \in Built[t].refs : r[2] \in {"projects", "assets", "product_candidates"}
  <1>1. DOMAIN Built = TablesAt(Latest)
    BY DEF Built, TablesAt, Latest, Revisions
  <1> DEFINE IsTable(d) ==
        /\ d = Table(d.req, d.null, d.unique, d.index, d.refs)
        /\ \A r \in d.refs : r[2] \in {"projects", "assets", "product_candidates"}
  <1>2. \A a, b, c, d : IsTable(Table(a, b, c, d, {})) /\ IsTable(Table(a, b, c, d, Owned))
    BY DEF Table, Owned
  <1>3. \A a, b, c, d :
          /\ IsTable(Table(a, b, c, d,
                           Owned \cup {<<"product_candidate_id", "product_candidates">>}))
          /\ IsTable(Table(a, b, c, d, Owned \cup {<<"source_asset_id", "assets">>,
                                                   <<"preview_asset_id", "assets">>}))
    BY DEF Table, Owned
  <1> HIDE DEF IsTable
  <1>4. /\ IsTable(ProjectRow) /\ IsTable(SceneRevisionRow) /\ IsTable(DesignCommandRow)
        /\ IsTable(AssetRow) /\ IsTable(AttachmentRow)
    BY <1>2 DEF ProjectRow, SceneRevisionRow, DesignCommandRow, AssetRow, AttachmentRow
  <1>5. /\ IsTable(StyleProfileRow) /\ IsTable(PlanDraftRow) /\ IsTable(GenerationManifestTable)
        /\ IsTable(RenderManifestTable) /\ IsTable(GeometryDiagnosticTable)
    BY <1>2 DEF StyleProfileRow, PlanDraftRow, GenerationManifestTable, RenderManifestTable,
                GeometryDiagnosticTable
  <1>6. /\ IsTable(JobRow) /\ IsTable(WorkerRow) /\ IsTable(ValidationReportRow)
        /\ IsTable(SceneVariantRow) /\ IsTable(ProgressSnapshotRow)
    BY <1>2 DEF JobRow, WorkerRow, ValidationReportRow, SceneVariantRow, ProgressSnapshotRow
  <1>7. IsTable(DeviationRow) /\ IsTable(AuthSessionTable)
    BY <1>2 DEF DeviationRow, AuthSessionTable
  <1>8. IsTable(ProductCandidateRow) /\ IsTable(BudgetItemRow)
    BY <1>3 DEF ProductCandidateRow, BudgetItemRow
  <1>9. \A t \in DOMAIN Built : IsTable(Built[t])
    BY <1>4, <1>5, <1>6, <1>7, <1>8 DEF Built
  <1>10. QED
    BY <1>1, <1>9 DEF IsTable

\* the tables that migration n changes and does not create
ChangedBy(n) ==
  CASE n = 2 -> {"assets", "jobs"}
    [] n = 3 -> {"design_commands"}
    [] n = 9 -> {"auth_sessions"}
    [] n \in {10, 11} -> {"workers"}
    [] n = 15 -> {Revisions} \cup Manifests
    [] n = 16 -> {"projects"}
    [] OTHER -> {}

\* The other tables stay as they are.
LEMMA VersionStays ==
  ASSUME NEW n \in 2..Latest, NEW t, t \notin ChangedBy(n)
  PROVE  Version(t, n) = Version(t, n - 1)
  <1>1. Later(t, n) = Later(t, n - 1)
    BY DEF Later, Latest, ChangedBy
  <1>2. LaterUnique(t, n) = LaterUnique(t, n - 1) /\ LaterIndex(t, n) = LaterIndex(t, n - 1)
    BY DEF LaterUnique, LaterIndex, Latest, ChangedBy
  <1>3. FormerNull(t, n) = FormerNull(t, n - 1) /\ FormerUnique(t, n) = FormerUnique(t, n - 1)
    BY DEF FormerNull, FormerUnique, Latest, ChangedBy
  <1>4. QED
    BY <1>1, <1>2, <1>3 DEF Version

\* The chain ends in what is built ...
LEMMA StageBuilt == Stage(Latest) = Built
  <1>1. \A t \in TablesAt(Latest) : Version(t, Latest) = Built[t]
    <2> SUFFICES ASSUME NEW t \in TablesAt(Latest) PROVE Version(t, Latest) = Built[t]
      OBVIOUS
    <2>1. /\ Later(t, Latest) = {} /\ LaterUnique(t, Latest) = {} /\ LaterIndex(t, Latest) = {}
          /\ FormerNull(t, Latest) = {} /\ FormerUnique(t, Latest) = {}
      BY DEF Later, LaterUnique, LaterIndex, FormerNull, FormerUnique, Latest
    <2>2. \A S : S \ {} = S /\ S \cup {} = S
      OBVIOUS
    <2>3. Version(t, Latest) = Table(Built[t].req, Built[t].null, Built[t].unique,
                              Built[t].index, Built[t].refs)
      BY <2>1, <2>2 DEF Version
    <2>4. QED
      BY <2>3, BuiltTables
  <1>2. Built = [t \in DOMAIN Built |-> Built[t]]
    BY DEF Built
  <1>3. QED
    BY <1>1, <1>2, BuiltTables DEF Stage

\* What has only plain indexes keeps unique what its constraints say.
LEMMA PlainIndexes ==
  ASSUME NEW a, NEW b, NEW unique, NEW cols, NEW refs, "UNIQUE" \notin cols
  PROVE  LET def == Table(a, b, unique, Each(cols), refs)
         IN KeptUnique(def) = unique /\ Indexed(def) = unique \cup Each(cols)
  <1> DEFINE def == Table(a, b, unique, Each(cols), refs)
  <1>1. def.unique = unique /\ def.index = Each(cols)
    BY DEF Table
  <1>2. \A i \in Each(cols) : i[1] # "UNIQUE"
    BY DEF Each
  <1> HIDE DEF def
  <1>3. QED
    BY <1>1, <1>2 DEF KeptUnique, Indexed, def

\* What has one unique index keeps its column unique, too.
LEMMA OneUniqueIndex ==
  ASSUME NEW a, NEW b, NEW unique, NEW cols, NEW refs, NEW c, "UNIQUE" \notin cols
  PROVE  LET def == Table(a, b, unique, Each(cols) \cup UniqueIndex(c), refs)
         IN /\ KeptUnique(def) = unique \cup {<<c>>}
            /\ Indexed(def) = unique \cup {<<c>>} \cup Each(cols)
  <1> DEFINE def == Table(a, b, unique, Each(cols) \cup UniqueIndex(c), refs)
             i == <<"UNIQUE", c>>
  <1>1. def.unique = unique /\ def.index = Each(cols) \cup {i}
    BY DEF Table, UniqueIndex
  <1>2. \A x \in Each(cols) : x[1] # "UNIQUE"
    BY DEF Each
  <1>3. i[1] = "UNIQUE" /\ Tail(i) = <<c>>
    OBVIOUS
  <1> HIDE DEF def, i
  <1>4. {x \in def.index : x[1] = "UNIQUE"} = {i} /\ {x \in def.index : x[1] # "UNIQUE"} = Each(cols)
    BY <1>1, <1>2, <1>3
  <1>5. KeptUnique(def) = unique \cup {<<c>>}
    BY <1>1, <1>3, <1>4 DEF KeptUnique
  <1>6. Indexed(def) = unique \cup {<<c>>} \cup Each(cols)
    BY <1>4, <1>5 DEF Indexed
  <1>7. QED
    BY <1>5, <1>6 DEF def

\* ... and that serves as what is declared.
LEMMA BuiltServes ==
  /\ DOMAIN Built = DOMAIN Declared
  /\ \A t \in DOMAIN Built : Serves(Built[t], Declared[t])
  <1>1. \A def : Serves(def, def)
    BY DEF Serves
  <1> DEFINE Alike(a, b) == a.req = b.req /\ a.null = b.null /\ a.refs = b.refs
  <1>2. Serves(GenerationManifestTable, GenerationManifestRow)
    <2> DEFINE cols == {"project_id", "scene_revision_id", "design_revision_id", "variant_id"}
    <2>1. Alike(GenerationManifestTable, GenerationManifestRow)
      BY DEF GenerationManifestTable, GenerationManifestRow, Table
    <2>2. "UNIQUE" \notin cols
      OBVIOUS
    <2>3. /\ KeptUnique(GenerationManifestTable) = {<<"job_id">>}
          /\ Indexed(GenerationManifestTable) = {<<"job_id">>} \cup Each(cols)
      BY <2>2, OneUniqueIndex DEF GenerationManifestTable
    <2>4. /\ KeptUnique(GenerationManifestRow) = {<<"job_id">>}
          /\ Indexed(GenerationManifestRow) = {<<"job_id">>} \cup Each(cols)
      BY <2>2, OneUniqueIndex DEF GenerationManifestRow
    <2>5. QED
      BY <2>1, <2>3, <2>4 DEF Serves
  <1>3. Serves(RenderManifestTable, RenderManifestRow)
    <2> DEFINE cols == {"project_id", "scene_revision_id", "variant_id"}
    <2>1. Alike(RenderManifestTable, RenderManifestRow)
      BY DEF RenderManifestTable, RenderManifestRow, Table
    <2>2. "UNIQUE" \notin cols
      OBVIOUS
    <2>3. /\ KeptUnique(RenderManifestTable) = {<<"job_id">>}
          /\ Indexed(RenderManifestTable) = {<<"job_id">>} \cup Each(cols)
      BY <2>2, OneUniqueIndex DEF RenderManifestTable
    <2>4. /\ KeptUnique(RenderManifestRow) = {<<"job_id">>}
          /\ Indexed(RenderManifestRow) = {<<"job_id">>} \cup Each(cols)
      BY <2>2, OneUniqueIndex DEF RenderManifestRow
    <2>5. QED
      BY <2>1, <2>3, <2>4 DEF Serves
  <1>4. Serves(GeometryDiagnosticTable, GeometryDiagnosticRow)
    <2> DEFINE cols == {"project_id", "scene_revision_id"}
    <2>1. Alike(GeometryDiagnosticTable, GeometryDiagnosticRow)
      BY DEF GeometryDiagnosticTable, GeometryDiagnosticRow, Table
    <2>2. "UNIQUE" \notin cols
      OBVIOUS
    <2>3. /\ KeptUnique(GeometryDiagnosticTable) = {<<"job_id">>}
          /\ Indexed(GeometryDiagnosticTable) = {<<"job_id">>} \cup Each(cols)
      BY <2>2, OneUniqueIndex DEF GeometryDiagnosticTable
    <2>4. /\ KeptUnique(GeometryDiagnosticRow) = {<<"job_id">>}
          /\ Indexed(GeometryDiagnosticRow) = {<<"job_id">>} \cup Each(cols)
      BY <2>2, OneUniqueIndex DEF GeometryDiagnosticRow
    <2>5. QED
      BY <2>1, <2>3, <2>4 DEF Serves
  <1>5. Serves(AuthSessionTable, AuthSessionRow)
    <2>1. Alike(AuthSessionTable, AuthSessionRow)
      BY DEF AuthSessionTable, AuthSessionRow, Table
    <2>2. /\ "UNIQUE" \notin {"expires_at"} /\ "UNIQUE" \notin {"token_hash", "expires_at"}
          /\ {<<"token_hash">>} \cup Each({"expires_at"}) = Each({"token_hash", "expires_at"})
          /\ {<<"token_hash">>} \cup Each({"token_hash", "expires_at"})
               = Each({"token_hash", "expires_at"})
      <3>1. /\ Each({"expires_at"}) = {<<"expires_at">>}
            /\ Each({"token_hash", "expires_at"}) = {<<"token_hash">>, <<"expires_at">>}
        BY EachOf
      <3>2. QED
        BY <3>1
    <2>3. /\ KeptUnique(AuthSessionTable) = {<<"token_hash">>}
          /\ Indexed(AuthSessionTable) = {<<"token_hash">>} \cup Each({"token_hash", "expires_at"})
      BY <2>2, PlainIndexes DEF AuthSessionTable
    <2>4. /\ KeptUnique(AuthSessionRow) = {<<"token_hash">>}
          /\ Indexed(AuthSessionRow) = {<<"token_hash">>} \cup Each({"expires_at"})
      BY <2>2, OneUniqueIndex DEF AuthSessionRow
    <2>5. Indexed(AuthSessionTable) = Indexed(AuthSessionRow)
      BY <2>2, <2>3, <2>4
    <2>6. QED
      BY <2>1, <2>3, <2>4, <2>5 DEF Serves
  <1>6. DOMAIN Built = DOMAIN Declared
    BY DEF Built, Declared
  <1>7. \A t \in DOMAIN Built :
          \/ Built[t] = Declared[t]
          \/ Built[t] = GenerationManifestTable /\ Declared[t] = GenerationManifestRow
          \/ Built[t] = RenderManifestTable /\ Declared[t] = RenderManifestRow
          \/ Built[t] = GeometryDiagnosticTable /\ Declared[t] = GeometryDiagnosticRow
          \/ Built[t] = AuthSessionTable /\ Declared[t] = AuthSessionRow
    BY DEF Built, Declared
  <1>8. QED
    BY <1>1, <1>2, <1>3, <1>4, <1>5, <1>6, <1>7

\* A new table on top of a stage, and its removal.
LEMMA CreateStage ==
  ASSUME NEW n \in 1..Latest, NEW t, t \notin TablesAt(n - 1),
         TablesAt(n) = TablesAt(n - 1) \cup {t},
         \A u \in TablesAt(n - 1) : Version(u, n) = Version(u, n - 1)
  PROVE  /\ Create(Stage(n - 1), t, Version(t, n)) = Stage(n)
         /\ Drop(Stage(n), <<t>>) \in {Stage(n), Stage(n - 1)}
  <1>1. Create(Stage(n - 1), t, Version(t, n)) = Stage(n)
    BY DEF Create, With, Stage
  <1> DEFINE s == Stage(n)
             order == <<t>>
             gone(i) == {order[k] : k \in 1..i}
  <1>2. Len(order) = 1 /\ gone(1) = {t}
    OBVIOUS
  <1>3. Drop(s, order) = s \/ Drop(s, order) = [u \in DOMAIN s \ gone(Len(order)) |-> s[u]]
    BY DEF Drop
  <1> HIDE DEF gone, order
  <1>4. [u \in DOMAIN s \ {t} |-> s[u]] = Stage(n - 1)
    <2>1. DOMAIN s \ {t} = TablesAt(n - 1)
      BY DEF Stage
    <2>2. \A u \in TablesAt(n - 1) : s[u] = Version(u, n - 1)
      BY DEF Stage
    <2>3. QED
      BY <2>1, <2>2 DEF Stage
  <1>5. QED
    BY <1>1, <1>2, <1>3, <1>4 DEF order

\* the tables that stay as they are created
Plain(t) == t \notin {"projects", Revisions, "design_commands", "assets", "jobs", "workers",
                      "auth_sessions"} \cup Manifests

\* They are at every version what they end as.
LEMMA PlainVersion ==
  ASSUME NEW t \in DOMAIN Built, Plain(t), NEW n
  PROVE  Version(t, n) = Built[t]
  <1>1. /\ Later(t, n) = {} /\ LaterUnique(t, n) = {} /\ LaterIndex(t, n) = {}
        /\ FormerNull(t, n) = {} /\ FormerUnique(t, n) = {}
    BY DEF Plain, Later, LaterUnique, LaterIndex, FormerNull, FormerUnique
  <1>2. \A S : S \ {} = S /\ S \cup {} = S
    OBVIOUS
  <1>3. QED
    BY <1>1, <1>2, BuiltTables DEF Version

\* The migrations that create one table, there and back.
LEMMA OneTables ==
  ASSUME NEW n \in {4, 5, 6, 7, 8, 12, 13, 14}
  PROVE  /\ Upgraded(n, Stage(n - 1)) = Stage(n)
         /\ Downgraded(n, Stage(n)) \in {Stage(n), Stage(n - 1)}
  <1> DEFINE Makes(m, t) ==
        /\ \A s : Upgraded(m, s) = Create(s, t, Version(t, m))
        /\ \A s : Downgraded(m, s) = Drop(s, <<t>>)
        /\ t \notin TablesAt(m - 1) /\ TablesAt(m) = TablesAt(m - 1) \cup {t}
  <1>4. Makes(4, "style_profiles")
    <2>1. Version("style_profiles", 4) = StyleProfileRow
      BY PlainVersion DEF Plain, Built, Revisions, Manifests
    <2>2. \A s : Up0004(s) = Create(s, "style_profiles", StyleProfileRow)
      BY DEF Up0004, StyleProfileRow
    <2>3. "style_profiles" \notin TablesAt(3) /\ TablesAt(4) = TablesAt(3) \cup {"style_profiles"}
      BY DEF TablesAt, Revisions
    <2>4. QED
      BY <2>1, <2>2, <2>3 DEF Upgraded, Downgraded, Down0004
  <1>5. Makes(5, "render_manifests")
    <2>1. Version("render_manifests", 5) = Table(
             {"id", "project_id", "job_id", "scene_revision_id", "camera_id", "manifest_json",
              "created_at"}, {"design_revision_id"}, {<<"job_id">>},
             Each({"project_id", "scene_revision_id"}) \cup UniqueIndex("job_id"), Owned)
      <3> DEFINE t == "render_manifests"
      <3>1. /\ Later(t, 5) = {"variant_id"} /\ LaterUnique(t, 5) = {}
            /\ LaterIndex(t, 5) = {<<"variant_id">>}
            /\ FormerNull(t, 5) = {} /\ FormerUnique(t, 5) = {}
        BY DEF Later, LaterUnique, LaterIndex, FormerNull, FormerUnique, Manifests, Revisions
      <3>2. Built[t] = RenderManifestTable
        BY DEF Built
      <3> HIDE DEF t
      <3>3. QED
        <4>1. /\ Built[t].req \ Later(t, 5) = RenderManifestTable.req
              /\ (Built[t].null \ Later(t, 5)) \cup FormerNull(t, 5) = {"design_revision_id"}
              /\ (Built[t].unique \ LaterUnique(t, 5)) \cup FormerUnique(t, 5)
                    = {<<"job_id">>}
          BY <3>1, <3>2 DEF RenderManifestTable, Table
        <4>2. Built[t].index \ LaterIndex(t, 5)
                = Each({"project_id", "scene_revision_id"}) \cup UniqueIndex("job_id")
          <5> DEFINE all == {"project_id", "scene_revision_id", "variant_id"}
          <5>1. Built[t].index = Each(all) \cup UniqueIndex("job_id")
            BY <3>2 DEF RenderManifestTable, Table
          <5>2. all \ {"variant_id"} = {"project_id", "scene_revision_id"}
            OBVIOUS
          <5> HIDE DEF all
          <5>3. Each(all) \ {<<"variant_id">>} = Each(all \ {"variant_id"})
            BY EachLess
          <5>4. QED
            BY <3>1, <5>1, <5>2, <5>3, UniqueApart
        <4>3. Built[t].refs = Owned
          BY <3>2 DEF RenderManifestTable, Table
        <4>4. Version(t, 5)
                = Table(RenderManifestTable.req, {"design_revision_id"}, {<<"job_id">>},
                        Each({"project_id", "scene_revision_id"}) \cup UniqueIndex("job_id"),
                        Owned)
          BY <4>1, <4>2, <4>3 DEF Version
        <4>5. QED
          BY <4>4 DEF RenderManifestTable, Table, t
    <2>2. QED
      BY <2>1 DEF Upgraded, Downgraded, Up0005, Down0005, TablesAt, Revisions
  <1>6. Makes(6, "geometry_diagnostics")
    <2>1. Version("geometry_diagnostics", 6) = GeometryDiagnosticTable
      BY PlainVersion DEF Plain, Built, Revisions, Manifests
    <2>2. \A s : Up0006(s) = Create(s, "geometry_diagnostics", GeometryDiagnosticTable)
      BY DEF Up0006, GeometryDiagnosticTable
    <2>3. /\ "geometry_diagnostics" \notin TablesAt(5)
          /\ TablesAt(6) = TablesAt(5) \cup {"geometry_diagnostics"}
      BY DEF TablesAt, Revisions
    <2>4. QED
      BY <2>1, <2>2, <2>3 DEF Upgraded, Downgraded, Down0006
  <1>7. Makes(7, "generation_manifests")
    <2>1. Version("generation_manifests", 7) = Table(
            {"id", "project_id", "job_id", "scene_revision_id", "design_revision_id", "camera_id",
             "manifest_json", "created_at"}, {}, {<<"job_id">>},
            Each({"project_id", "scene_revision_id", "design_revision_id"})
              \cup UniqueIndex("job_id"), Owned)
      <3> DEFINE t == "generation_manifests"
      <3>1. /\ Later(t, 7) = {"variant_id"} /\ LaterUnique(t, 7) = {}
            /\ LaterIndex(t, 7) = {<<"variant_id">>}
            /\ FormerNull(t, 7) = {} /\ FormerUnique(t, 7) = {}
        BY DEF Later, LaterUnique, LaterIndex, FormerNull, FormerUnique, Manifests, Revisions
      <3>2. Built[t] = GenerationManifestTable
        BY DEF Built
      <3> HIDE DEF t
      <3>3. QED
        <4>1. /\ Built[t].req \ Later(t, 7) = GenerationManifestTable.req
              /\ (Built[t].null \ Later(t, 7)) \cup FormerNull(t, 7) = {}
              /\ (Built[t].unique \ LaterUnique(t, 7)) \cup FormerUnique(t, 7)
                    = {<<"job_id">>}
          BY <3>1, <3>2 DEF GenerationManifestTable, Table
        <4>2. Built[t].index \ LaterIndex(t, 7)
                = Each({"project_id", "scene_revision_id", "design_revision_id"})
                    \cup UniqueIndex("job_id")
          <5> DEFINE all == {"project_id", "scene_revision_id", "design_revision_id",
                             "variant_id"}
          <5>1. Built[t].index = Each(all) \cup UniqueIndex("job_id")
            BY <3>2 DEF GenerationManifestTable, Table
          <5>2. all \ {"variant_id"} = {"project_id", "scene_revision_id", "design_revision_id"}
            OBVIOUS
          <5> HIDE DEF all
          <5>3. Each(all) \ {<<"variant_id">>} = Each(all \ {"variant_id"})
            BY EachLess
          <5>4. QED
            BY <3>1, <5>1, <5>2, <5>3, UniqueApart
        <4>3. Built[t].refs = Owned
          BY <3>2 DEF GenerationManifestTable, Table
        <4>4. Version(t, 7)
                = Table(GenerationManifestTable.req, {}, {<<"job_id">>},
                        Each({"project_id", "scene_revision_id", "design_revision_id"})
                          \cup UniqueIndex("job_id"), Owned)
          BY <4>1, <4>2, <4>3 DEF Version
        <4>5. QED
          BY <4>4 DEF GenerationManifestTable, Table, t
    <2>2. QED
      BY <2>1 DEF Upgraded, Downgraded, Up0007, Down0007, TablesAt, Revisions
  <1>8. Makes(8, "plan_drafts")
    <2>1. Version("plan_drafts", 8) = PlanDraftRow
      BY PlainVersion DEF Plain, Built, Revisions, Manifests
    <2>2. \A s : Up0008(s) = Create(s, "plan_drafts", PlanDraftRow)
      <3>1. Each({"project_id"}) = {<<"project_id">>}
        BY EachOf
      <3>2. Each({"project_id"})
              \cup {<<"project_id", "version">>}
          = {<<"project_id">>, <<"project_id", "version">>}
        BY <3>1
      <3>3. QED
        BY <3>2 DEF Up0008, PlanDraftRow
    <2>3. "plan_drafts" \notin TablesAt(7) /\ TablesAt(8) = TablesAt(7) \cup {"plan_drafts"}
      BY DEF TablesAt, Revisions
    <2>4. QED
      BY <2>1, <2>2, <2>3 DEF Upgraded, Downgraded, Down0008
  <1>12. Makes(12, "attachments")
    <2>1. Version("attachments", 12) = AttachmentRow
      BY PlainVersion DEF Plain, Built, Revisions, Manifests
    <2>2. \A s : Up0012(s) = Create(s, "attachments", AttachmentRow)
      <3>1. Each({"project_id", "asset_id"}) = {<<"project_id">>, <<"asset_id">>}
        BY EachOf
      <3>2. Each({"project_id", "asset_id"})
              \cup {<<"project_id", "target_type", "target_id">>, <<"project_id", "kind">>}
          = {<<"project_id">>, <<"project_id", "target_type", "target_id">>, <<"asset_id">>,
             <<"project_id", "kind">>}
        BY <3>1
      <3>3. QED
        BY <3>2 DEF Up0012, AttachmentRow
    <2>3. "attachments" \notin TablesAt(11) /\ TablesAt(12) = TablesAt(11) \cup {"attachments"}
      BY DEF TablesAt, Revisions
    <2>4. QED
      BY <2>1, <2>2, <2>3 DEF Upgraded, Downgraded, Down0012
  <1>13. Makes(13, "validation_reports")
    <2>1. Version("validation_reports", 13) = ValidationReportRow
      BY PlainVersion DEF Plain, Built, Revisions, Manifests
    <2>2. \A s : Up0013(s) = Create(s, "validation_reports", ValidationReportRow)
      BY DEF Up0013, ValidationReportRow
    <2>3. /\ "validation_reports" \notin TablesAt(12)
          /\ TablesAt(13) = TablesAt(12) \cup {"validation_reports"}
      BY DEF TablesAt, Revisions
    <2>4. QED
      BY <2>1, <2>2, <2>3 DEF Upgraded, Downgraded, Down0013
  <1>14. Makes(14, "product_candidates")
    <2>1. Version("product_candidates", 14) = ProductCandidateRow
      BY PlainVersion DEF Plain, Built, Revisions, Manifests
    <2>2. \A s : Up0014(s) = Create(s, "product_candidates", ProductCandidateRow)
      <3>1. Each({"project_id", "source_asset_id", "preview_asset_id"})
              = {<<"project_id">>, <<"source_asset_id">>, <<"preview_asset_id">>}
        BY DEF Each
      <3>2. Each({"project_id", "source_asset_id", "preview_asset_id"})
              \cup {<<"project_id", "created_at">>}
          = {<<"project_id">>, <<"project_id", "created_at">>, <<"source_asset_id">>,
             <<"preview_asset_id">>}
        BY <3>1
      <3>3. QED
        BY <3>2 DEF Up0014, ProductCandidateRow
    <2>3. /\ "product_candidates" \notin TablesAt(13)
          /\ TablesAt(14) = TablesAt(13) \cup {"product_candidates"}
      BY DEF TablesAt, Revisions
    <2>4. QED
      BY <2>1, <2>2, <2>3 DEF Upgraded, Downgraded, Down0014
  <1>15. PICK t : Makes(n, t)
    BY <1>4, <1>5, <1>6, <1>7, <1>8, <1>12, <1>13, <1>14
  <1>16. n \in 2..Latest /\ \A u : Version(u, n) = Version(u, n - 1)
    BY VersionStays DEF Latest, ChangedBy
  <1>17. QED
    BY <1>15, <1>16, CreateStage

\* Adding to one table, and removing from it.
LEMMA AddAt ==
  ASSUME NEW s, NEW t \in DOMAIN s, NEW a, NEW b, NEW c, NEW d, NEW e,
         s[t] = Table(a, b, c, d, e), NEW req, NEW null, NEW unique, NEW index
  PROVE  Add(s, t, req, null, unique, index)
           = [s EXCEPT ![t] = Table(a \cup req, b \cup null, c \cup unique, d \cup index, e)]
  <1> DEFINE f == Add(s, t, req, null, unique, index)
  <1>1. f[t] = Table(a \cup req, b \cup null, c \cup unique, d \cup index, e)
    <2>1. /\ s[t].req = a /\ s[t].null = b /\ s[t].unique = c /\ s[t].index = d /\ s[t].refs = e
          /\ DOMAIN s[t] = {"req", "null", "unique", "index", "refs"}
      BY DEF Table
    <2>2. f[t] = [x \in DOMAIN f[t] |-> f[t][x]] /\ DOMAIN f[t] = DOMAIN s[t]
      BY DEF Add
    <2>3. f[t].req = s[t].req \cup req /\ f[t].null = s[t].null \cup null
      BY <2>1 DEF Add
    <2>4. /\ f[t].unique = s[t].unique \cup unique /\ f[t].index = s[t].index \cup index
          /\ f[t].refs = s[t].refs
      BY <2>1 DEF Add
    <2> HIDE DEF f
    <2>5. QED
      BY <2>1, <2>2, <2>3, <2>4 DEF Table
  <1>2. DOMAIN f = DOMAIN s /\ \A u \in DOMAIN s : u # t => f[u] = s[u]
    BY DEF Add
  <1>3. f = [u \in DOMAIN f |-> f[u]]
    BY DEF Add
  <1> HIDE DEF f
  <1>4. f = [s EXCEPT ![t] = Table(a \cup req, b \cup null, c \cup unique, d \cup index, e)]
    BY <1>1, <1>2, <1>3
  <1>5. QED
    BY <1>4 DEF f

\* What is left of a table when something is removed.
LEMMA RemoveAt ==
  ASSUME NEW s, NEW t \in DOMAIN s, NEW a, NEW b, NEW c, NEW d, NEW e,
         s[t] = Table(a, b, c, d, e), NEW cols, NEW unique, NEW index
  PROVE  Remove(s, t, cols, unique, index)
           = [s EXCEPT ![t] = Table(a \ cols, b \ cols, c \ unique, d \ index, e)]
  <1> DEFINE f == Remove(s, t, cols, unique, index)
  <1>1. f[t] = Table(a \ cols, b \ cols, c \ unique, d \ index, e)
    <2>1. /\ s[t].req = a /\ s[t].null = b /\ s[t].unique = c /\ s[t].index = d /\ s[t].refs = e
          /\ DOMAIN s[t] = {"req", "null", "unique", "index", "refs"}
      BY DEF Table
    <2>2. f[t] = [x \in DOMAIN f[t] |-> f[t][x]] /\ DOMAIN f[t] = DOMAIN s[t]
      BY DEF Remove
    <2>3. f[t].req = s[t].req \ cols /\ f[t].null = s[t].null \ cols
      BY <2>1 DEF Remove
    <2>4. /\ f[t].unique = s[t].unique \ unique /\ f[t].index = s[t].index \ index
          /\ f[t].refs = s[t].refs
      BY <2>1 DEF Remove
    <2> HIDE DEF f
    <2>5. QED
      BY <2>1, <2>2, <2>3, <2>4 DEF Table
  <1>2. DOMAIN f = DOMAIN s /\ \A u \in DOMAIN s : u # t => f[u] = s[u]
    BY DEF Remove
  <1>3. f = [u \in DOMAIN f |-> f[u]]
    BY DEF Remove
  <1> HIDE DEF f
  <1>4. f = [s EXCEPT ![t] = Table(a \ cols, b \ cols, c \ unique, d \ index, e)]
    BY <1>1, <1>2, <1>3
  <1>5. QED
    BY <1>4 DEF f

\* From the m-th to the n-th migration t gets what it still lacks.
LastAdds(t, m, n, req, null, unique, index) ==
  /\ req \subseteq Built[t].req /\ req \cap Built[t].null = {}
  /\ null \subseteq Built[t].null /\ null \cap Built[t].req = {}
  /\ unique \subseteq Built[t].unique /\ index \subseteq Built[t].index
  /\ Later(t, m) = req \cup null /\ Later(t, n) = {}
  /\ LaterUnique(t, m) = unique /\ LaterUnique(t, n) = {}
  /\ LaterIndex(t, m) = index /\ LaterIndex(t, n) = {}
  /\ FormerNull(t, m) = {} /\ FormerNull(t, n) = {}
  /\ FormerUnique(t, m) = {} /\ FormerUnique(t, n) = {}

\* What adding it does ...
LEMMA LastAdded ==
  ASSUME NEW t, NEW m, NEW n, NEW req, NEW null, NEW unique, NEW index, NEW s,
         LastAdds(t, m, n, req, null, unique, index), t \in DOMAIN s, s[t] = Version(t, m)
  PROVE  Add(s, t, req, null, unique, index) = [s EXCEPT ![t] = Version(t, n)]
  <1> DEFINE D == Built[t]
  <1>1. /\ (D.req \ (req \cup null)) \cup req = D.req \ {}
        /\ ((D.null \ (req \cup null)) \cup {}) \cup null = (D.null \ {}) \cup {}
        /\ ((D.unique \ unique) \cup {}) \cup unique = (D.unique \ {}) \cup {}
        /\ (D.index \ index) \cup index = D.index \ {}
    BY DEF LastAdds
  <1>2. /\ Version(t, m) = Table(D.req \ (req \cup null), (D.null \ (req \cup null)) \cup {},
                                 (D.unique \ unique) \cup {}, D.index \ index, D.refs)
        /\ Version(t, n) = Table(D.req \ {}, (D.null \ {}) \cup {}, (D.unique \ {}) \cup {},
                                 D.index \ {}, D.refs)
    BY DEF Version, LastAdds
  <1> HIDE DEF D
  <1>3. QED
    BY <1>1, <1>2, AddAt

\* ... and removing it.
LEMMA LastRemoved ==
  ASSUME NEW t, NEW m, NEW n, NEW req, NEW null, NEW unique, NEW index, NEW s,
         LastAdds(t, m, n, req, null, unique, index), t \in DOMAIN s, s[t] = Version(t, n)
  PROVE  Remove(s, t, req \cup null, unique, index) = [s EXCEPT ![t] = Version(t, m)]
  <1> DEFINE D == Built[t]
             a == D.req \ {}
             b == (D.null \ {}) \cup {}
             c == (D.unique \ {}) \cup {}
             d == D.index \ {}
             cols == req \cup null
  <1>1. s[t] = Table(a, b, c, d, D.refs)
    BY DEF Version, LastAdds
  <1>2. /\ D.req \ cols = a \ cols /\ (D.null \ cols) \cup {} = b \ cols
        /\ (D.unique \ unique) \cup {} = c \ unique /\ D.index \ index = d \ index
    OBVIOUS
  <1>3. Version(t, m) = Table(D.req \ cols, (D.null \ cols) \cup {}, (D.unique \ unique) \cup {},
                              D.index \ index, D.refs)
    BY DEF Version, LastAdds
  <1> HIDE DEF D, a, b, c, d, cols
  <1>4. Remove(s, t, cols, unique, index) = [s EXCEPT ![t] = Version(t, m)]
    BY <1>1, <1>2, <1>3, RemoveAt
  <1>5. QED
    BY <1>4 DEF cols

\* One stage and the next, when one table changes.
LEMMA NextStage ==
  ASSUME NEW n \in 2..Latest, NEW t \in TablesAt(n), TablesAt(n) = TablesAt(n - 1),
         ChangedBy(n) = {t}
  PROVE  /\ Stage(n) = [Stage(n - 1) EXCEPT ![t] = Version(t, n)]
         /\ Stage(n - 1) = [Stage(n) EXCEPT ![t] = Version(t, n - 1)]
         /\ t \in DOMAIN Stage(n) /\ Stage(n)[t] = Version(t, n)
         /\ t \in DOMAIN Stage(n - 1) /\ Stage(n - 1)[t] = Version(t, n - 1)
  <1>1. \A u : u # t => Version(u, n) = Version(u, n - 1)
    BY VersionStays
  <1>2. QED
    BY <1>1 DEF Stage

\* A migration that adds nullable columns to one table.
LEMMA OneColumn ==
  ASSUME NEW n \in 2..Latest, NEW t \in TablesAt(n), TablesAt(n) = TablesAt(n - 1),
         ChangedBy(n) = {t}, NEW null, null \subseteq Built[t].null,
         null \cap Built[t].req = {}, Later(t, n - 1) = null, Later(t, n) = {},
         t \notin {"assets", "jobs", "workers", Revisions} \cup Manifests
  PROVE  /\ Add(Stage(n - 1), t, {}, null, {}, {}) = Stage(n)
         /\ Remove(Stage(n), t, null, {}, {}) = Stage(n - 1)
  <1>1. \A m : /\ LaterUnique(t, m) = {} /\ LaterIndex(t, m) = {}
               /\ FormerNull(t, m) = {} /\ FormerUnique(t, m) = {}
    BY DEF LaterUnique, LaterIndex, FormerNull, FormerUnique, Manifests
  <1> DEFINE none == {}
             p == n - 1
  <1>2. LastAdds(t, p, n, none, null, none, none)
    BY <1>1 DEF LastAdds
  <1>3. none \cup null = null
    OBVIOUS
  <1> HIDE DEF none, p
  <1>4. ASSUME NEW s, t \in DOMAIN s
        PROVE  /\ s[t] = Version(t, p) =>
                    Add(s, t, none, null, none, none) = [s EXCEPT ![t] = Version(t, n)]
               /\ s[t] = Version(t, n) =>
                    Remove(s, t, null, none, none) = [s EXCEPT ![t] = Version(t, p)]
    <2>1. s[t] = Version(t, p) =>
            Add(s, t, none, null, none, none) = [s EXCEPT ![t] = Version(t, n)]
      BY <1>2, <1>4, LastAdded
    <2>2. s[t] = Version(t, n) =>
            Remove(s, t, none \cup null, none, none) = [s EXCEPT ![t] = Version(t, p)]
      BY <1>2, <1>4, LastRemoved
    <2>3. QED
      BY <1>3, <2>1, <2>2
  <1>5. /\ t \in DOMAIN Stage(n) /\ Stage(n)[t] = Version(t, n)
        /\ t \in DOMAIN Stage(p) /\ Stage(p)[t] = Version(t, p)
        /\ Stage(n) = [Stage(p) EXCEPT ![t] = Version(t, n)]
        /\ Stage(p) = [Stage(n) EXCEPT ![t] = Version(t, p)]
    BY NextStage DEF p
  <1>6. /\ Add(Stage(p), t, none, null, none, none) = Stage(n)
        /\ Remove(Stage(n), t, null, none, none) = Stage(p)
    BY <1>4, <1>5
  <1>7. QED
    BY <1>6 DEF none, p

\* The third, ninth and sixteenth migration, there and back.
LEMMA ColumnsAdded ==
  ASSUME NEW n \in {3, 9, 16}
  PROVE  /\ Upgraded(n, Stage(n - 1)) = Stage(n)
         /\ Downgraded(n, Stage(n)) = Stage(n - 1)
  <1>1. CASE n = 3
    <2> DEFINE t == "design_commands"
               null == {"model_profile", "correlation_id"}
    <2>1. null \subseteq Built[t].null /\ null \cap Built[t].req = {}
      BY DEF Built, DesignCommandRow, Table
    <2>2. Later(t, 2) = null /\ Later(t, 3) = {} /\ ChangedBy(3) = {t}
      BY DEF Later, Manifests, ChangedBy
    <2>3. t \in TablesAt(3) /\ TablesAt(3) = TablesAt(2)
          /\ t \notin {"assets", "jobs", "workers", Revisions} \cup Manifests
      BY DEF TablesAt, Revisions, Manifests
    <2>4. null = {"correlation_id", "model_profile"}
      OBVIOUS
    <2> HIDE DEF null, t
    <2>5. Add(Stage(2), t, {}, null, {}, {}) = Stage(3)
          /\ Remove(Stage(3), t, null, {}, {}) = Stage(2)
      BY <2>1, <2>2, <2>3, OneColumn DEF Latest
    <2>6. \A s : Upgraded(3, s) = Up0003(s) /\ Downgraded(3, s) = Down0003(s)
      BY DEF Upgraded, Downgraded
    <2>7. Up0003(Stage(2)) = Stage(3)
      BY <2>5 DEF Up0003, t, null
    <2>8. Down0003(Stage(3)) = Stage(2)
      BY <2>4, <2>5 DEF Down0003, t
    <2>9. QED
      BY <1>1, <2>6, <2>7, <2>8
  <1>2. CASE n = 9
    <2> DEFINE t == "auth_sessions"
               null == {"last_seen_at"}
    <2>1. null \subseteq Built[t].null /\ null \cap Built[t].req = {}
      BY DEF Built, AuthSessionTable, Table
    <2>2. Later(t, 8) = null /\ Later(t, 9) = {} /\ ChangedBy(9) = {t}
      BY DEF Later, Manifests, ChangedBy
    <2>3. t \in TablesAt(9) /\ TablesAt(9) = TablesAt(8)
          /\ t \notin {"assets", "jobs", "workers", Revisions} \cup Manifests
      BY DEF TablesAt, Revisions, Manifests
    <2> HIDE DEF null, t
    <2>5. Add(Stage(8), t, {}, null, {}, {}) = Stage(9)
          /\ Remove(Stage(9), t, null, {}, {}) = Stage(8)
      BY <2>1, <2>2, <2>3, OneColumn DEF Latest
    <2>6. \A s : Upgraded(9, s) = Up0009(s) /\ Downgraded(9, s) = Down0009(s)
      BY DEF Upgraded, Downgraded
    <2>7. Up0009(Stage(8)) = Stage(9) /\ Down0009(Stage(9)) = Stage(8)
      BY <2>5 DEF Up0009, Down0009, t, null
    <2>9. QED
      BY <1>2, <2>6, <2>7
  <1>3. CASE n = 16
    <2> DEFINE t == "projects"
               null == {"brief_notes_json"}
    <2>1. null \subseteq Built[t].null /\ null \cap Built[t].req = {}
      BY DEF Built, ProjectRow, Table
    <2>2. Later(t, 15) = null /\ Later(t, 16) = {} /\ ChangedBy(16) = {t}
      BY DEF Later, Manifests, ChangedBy
    <2>3. t \in TablesAt(16) /\ TablesAt(16) = TablesAt(15)
          /\ t \notin {"assets", "jobs", "workers", Revisions} \cup Manifests
      BY DEF TablesAt, Revisions, Manifests
    <2> HIDE DEF null, t
    <2>5. Add(Stage(15), t, {}, null, {}, {}) = Stage(16)
          /\ Remove(Stage(16), t, null, {}, {}) = Stage(15)
      BY <2>1, <2>2, <2>3, OneColumn DEF Latest
    <2>6. \A s : Upgraded(16, s) = Up0016(s) /\ Downgraded(16, s) = Down0016(s)
      BY DEF Upgraded, Downgraded
    <2>7. Up0016(Stage(15)) = Stage(16) /\ Down0016(Stage(16)) = Stage(15)
      BY <2>5 DEF Up0016, Down0016, t, null
    <2>9. QED
      BY <1>3, <2>6, <2>7
  <1>4. QED
    BY <1>1, <1>2, <1>3

\* The telemetry of the workers comes with the tenth migration and goes with the next.
LEMMA TelemetryComesAndGoes ==
  /\ Upgraded(10, Stage(9)) = Stage(10) /\ Downgraded(10, Stage(10)) = Stage(9)
  /\ Upgraded(11, Stage(10)) = Stage(11) /\ Downgraded(11, Stage(11)) = Stage(10)
  <1> DEFINE t == "workers"
             without == Table(WorkerRow.req, WorkerRow.null, {}, {}, {})
             with == Table(WorkerRow.req, WorkerRow.null \cup Telemetry, {}, {}, {})
  <1>1. Version(t, 9) = without /\ Version(t, 10) = with /\ Version(t, 11) = without
    <2>1. \A m : /\ Later(t, m) = {} /\ LaterUnique(t, m) = {} /\ LaterIndex(t, m) = {}
                 /\ FormerUnique(t, m) = {}
                 /\ FormerNull(t, m) = IF m = 10 THEN Telemetry ELSE {}
      BY DEF Later, LaterUnique, LaterIndex, FormerNull, FormerUnique, Manifests, Revisions
    <2>2. Built[t] = WorkerRow
      BY DEF Built
    <2>3. WorkerRow.unique = {} /\ WorkerRow.index = {} /\ WorkerRow.refs = {}
      BY DEF WorkerRow, Table
    <2>4. \A S : S \ {} = S /\ S \cup {} = S
      OBVIOUS
    <2> HIDE DEF t
    <2>5. \A m : Version(t, m) = Table(WorkerRow.req, WorkerRow.null \cup FormerNull(t, m), {}, {}, {})
      BY <2>1, <2>2, <2>3, <2>4 DEF Version
    <2>6. QED
      BY <2>1, <2>4, <2>5
  <1>2. /\ WorkerRow.req \ Telemetry = WorkerRow.req /\ WorkerRow.req \cup {} = WorkerRow.req
        /\ (WorkerRow.null \cup Telemetry) \ Telemetry = WorkerRow.null
    BY DEF WorkerRow, Table, Telemetry
  <1>3. ChangedBy(10) = {t} /\ ChangedBy(11) = {t}
    BY DEF ChangedBy
  <1>4. t \in TablesAt(10) /\ t \in TablesAt(11)
        /\ TablesAt(10) = TablesAt(9) /\ TablesAt(11) = TablesAt(10)
    BY DEF TablesAt
  <1>5. \A s : t \in DOMAIN s /\ s[t] = without =>
                 Add(s, t, {}, Telemetry, {}, {}) = [s EXCEPT ![t] = with]
    <2> SUFFICES ASSUME NEW s, t \in DOMAIN s, s[t] = without
                 PROVE  Add(s, t, {}, Telemetry, {}, {}) = [s EXCEPT ![t] = with]
      OBVIOUS
    <2> DEFINE none == {}
               req == WorkerRow.req
    <2>1. s[t] = Table(req, WorkerRow.null, none, none, none)
      OBVIOUS
    <2>2. with = Table(req \cup none, WorkerRow.null \cup Telemetry, none \cup none,
                       none \cup none, none)
      BY <1>2
    <2> HIDE DEF with, without, t, none, req
    <2>3. Add(s, t, none, Telemetry, none, none) = [s EXCEPT ![t] = with]
      BY <2>1, <2>2, AddAt
    <2>4. QED
      BY <2>3 DEF none
  <1>6. \A s : t \in DOMAIN s /\ s[t] = with =>
                 Remove(s, t, Telemetry, {}, {}) = [s EXCEPT ![t] = without]
    <2> SUFFICES ASSUME NEW s, t \in DOMAIN s, s[t] = with
                 PROVE  Remove(s, t, Telemetry, {}, {}) = [s EXCEPT ![t] = without]
      OBVIOUS
    <2> DEFINE none == {}
               req == WorkerRow.req
               null == WorkerRow.null \cup Telemetry
    <2>1. s[t] = Table(req, null, none, none, none)
      OBVIOUS
    <2>2. without = Table(req \ Telemetry, null \ Telemetry, none \ none, none \ none, none)
      BY <1>2
    <2> HIDE DEF with, without, t, none, req, null
    <2>3. Remove(s, t, Telemetry, none, none) = [s EXCEPT ![t] = without]
      BY <2>1, <2>2, RemoveAt
    <2>4. QED
      BY <2>3 DEF none
  <1> HIDE DEF with, without
  <1>7. /\ Stage(10) = [Stage(9) EXCEPT ![t] = with] /\ Stage(9) = [Stage(10) EXCEPT ![t] = without]
        /\ t \in DOMAIN Stage(10) /\ Stage(10)[t] = with
        /\ t \in DOMAIN Stage(9) /\ Stage(9)[t] = without
    BY <1>1, <1>3, <1>4, NextStage DEF Latest
  <1>8. /\ Stage(11) = [Stage(10) EXCEPT ![t] = without]
        /\ Stage(10) = [Stage(11) EXCEPT ![t] = with]
        /\ t \in DOMAIN Stage(11) /\ Stage(11)[t] = without
    BY <1>1, <1>3, <1>4, NextStage DEF Latest
  <1>9. /\ \A s : Upgraded(10, s) = Add(s, t, {}, Telemetry, {}, {})
        /\ \A s : Downgraded(10, s) = Remove(s, t, Telemetry, {}, {})
        /\ \A s : Upgraded(11, s) = Remove(s, t, Telemetry, {}, {})
        /\ \A s : Downgraded(11, s) = Add(s, t, {}, Telemetry, {}, {})
    BY DEF Upgraded, Downgraded, Up0010, Up0011, Down0010, Down0011
  <1> HIDE DEF t
  <1>10. QED
    BY <1>5, <1>6, <1>7, <1>8, <1>9

\* The tables of the first migration.
LEMMA FirstVersions ==
  /\ Version("projects", 1) = Table(
         {"id", "name", "created_at"},
         {}, {}, {}, {})
  /\ Version("design_commands", 1) = Table(
         {"id", "project_id", "base_revision_id", "operation", "target_id", "parameters",
          "reference_asset_ids", "origin", "created_at"},
         {"request_text"}, {}, Each({"project_id"}), Owned)
  /\ Version("assets", 1) = Table(
         {"id", "project_id", "object_key", "media_type", "size_bytes", "sha256",
          "provenance", "created_at"},
         {"original_name", "source_asset_id"}, {<<"object_key">>},
         Each({"project_id", "sha256"}), Owned)
  /\ Version("jobs", 1) = Table(
         {"id", "job_type", "status", "payload", "required_capabilities", "attempt",
          "created_at", "updated_at"},
         {"project_id", "result", "error", "leased_to", "lease_id", "lease_expires_at"}, {},
         Each({"project_id", "job_type", "status"}) \cup {<<"status", "created_at">>}, {})
  /\ Version("workers", 1) = Table(
         {"id", "capabilities", "models", "runtimes", "hardware", "status", "last_heartbeat"},
         {"display_name"}, {}, {}, {})
  /\ Version("auth_sessions", 1) = Table(
         {"id", "token_hash", "csrf_token", "expires_at", "created_at"},
         {"revoked_at"}, {<<"token_hash">>}, Each({"token_hash", "expires_at"}), {})
  /\ Version("scene_revisions", 1) = Table(
         {"id", "project_id", "schema_version", "content_hash", "scene_json", "created_at"},
         {"parent_revision_id", "command_id"}, {<<"parent_revision_id">>},
         Each({"project_id", "content_hash"}), Owned)
  <1>0. \A S : S \ {} = S /\ S \cup {} = S
    OBVIOUS
  <1>1. Version("projects", 1) = Table(
         {"id", "name", "created_at"},
         {}, {}, {}, {})
    <2> DEFINE t == "projects"
    <2>1. /\ Later(t, 1) = {"brief_notes_json"}
          /\ LaterUnique(t, 1) = {} /\ LaterIndex(t, 1) = {}
          /\ FormerNull(t, 1) = {} /\ FormerUnique(t, 1) = {}
      BY DEF Later, LaterUnique, LaterIndex, FormerNull, FormerUnique, Manifests, Revisions
    <2>2. Built[t] = ProjectRow
      BY DEF Built
    <2> HIDE DEF t
    <2>3. /\ Built[t].req \ Later(t, 1) =
               {"id", "name", "created_at"}
          /\ (Built[t].null \ Later(t, 1)) \cup FormerNull(t, 1) = {}
      BY <2>1, <2>2 DEF ProjectRow, Table
    <2>4. /\ (Built[t].unique \ LaterUnique(t, 1)) \cup FormerUnique(t, 1) = {}
          /\ Built[t].index \ LaterIndex(t, 1) = {}
          /\ Built[t].refs = {}
      BY <1>0, <2>1, <2>2 DEF ProjectRow, Table
    <2>5. QED
      BY <2>3, <2>4 DEF Version, t
  <1>2. Version("design_commands", 1) = Table(
         {"id", "project_id", "base_revision_id", "operation", "target_id", "parameters",
          "reference_asset_ids", "origin", "created_at"},
         {"request_text"}, {}, Each({"project_id"}), Owned)
    <2> DEFINE t == "design_commands"
    <2>1. /\ Later(t, 1) = {"model_profile", "correlation_id"}
          /\ LaterUnique(t, 1) = {} /\ LaterIndex(t, 1) = {}
          /\ FormerNull(t, 1) = {} /\ FormerUnique(t, 1) = {}
      BY DEF Later, LaterUnique, LaterIndex, FormerNull, FormerUnique, Manifests, Revisions
    <2>2. Built[t] = DesignCommandRow
      BY DEF Built
    <2> HIDE DEF t
    <2>3. /\ Built[t].req \ Later(t, 1) =
               {"id", "project_id", "base_revision_id", "operation", "target_id", "parameters",
               "reference_asset_ids", "origin", "created_at"}
          /\ (Built[t].null \ Later(t, 1)) \cup FormerNull(t, 1) = {"request_text"}
      BY <2>1, <2>2 DEF DesignCommandRow, Table
    <2>4. /\ (Built[t].unique \ LaterUnique(t, 1)) \cup FormerUnique(t, 1) = {}
          /\ Built[t].index \ LaterIndex(t, 1) = Each({"project_id"})
          /\ Built[t].refs = Owned
      BY <1>0, <2>1, <2>2 DEF DesignCommandRow, Table
    <2>5. QED
      BY <2>3, <2>4 DEF Version, t
  <1>3. Version("assets", 1) = Table(
         {"id", "project_id", "object_key", "media_type", "size_bytes", "sha256",
          "provenance", "created_at"},
         {"original_name", "source_asset_id"}, {<<"object_key">>},
         Each({"project_id", "sha256"}), Owned)
    <2> DEFINE t == "assets"
    <2>1. /\ Later(t, 1) = {"role", "metadata_json", "source_asset_ids", "duplicate_of_asset_id"}
          /\ LaterUnique(t, 1) = {} /\ LaterIndex(t, 1) = {}
          /\ FormerNull(t, 1) = {} /\ FormerUnique(t, 1) = {}
      BY DEF Later, LaterUnique, LaterIndex, FormerNull, FormerUnique, Manifests, Revisions
    <2>2. Built[t] = AssetRow
      BY DEF Built
    <2> HIDE DEF t
    <2>3. /\ Built[t].req \ Later(t, 1) =
               {"id", "project_id", "object_key", "media_type", "size_bytes", "sha256",
               "provenance", "created_at"}
          /\ (Built[t].null \ Later(t, 1)) \cup FormerNull(t, 1)
                = {"original_name", "source_asset_id"}
      BY <2>1, <2>2 DEF AssetRow, Table
    <2>4. /\ (Built[t].unique \ LaterUnique(t, 1)) \cup FormerUnique(t, 1) = {<<"object_key">>}
          /\ Built[t].index \ LaterIndex(t, 1) = Each({"project_id", "sha256"})
          /\ Built[t].refs = Owned
      BY <1>0, <2>1, <2>2 DEF AssetRow, Table
    <2>5. QED
      BY <2>3, <2>4 DEF Version, t
  <1>4. Version("jobs", 1) = Table(
         {"id", "job_type", "status", "payload", "required_capabilities", "attempt",
          "created_at", "updated_at"},
         {"project_id", "result", "error", "leased_to", "lease_id", "lease_expires_at"}, {},
         Each({"project_id", "job_type", "status"}) \cup {<<"status", "created_at">>}, {})
    <2> DEFINE t == "jobs"
    <2>1. /\ Later(t, 1) = {"progress", "runtime_provenance", "idempotency_key", "correlation_id"}
          /\ LaterUnique(t, 1) = JobsKey /\ LaterIndex(t, 1) = {}
          /\ FormerNull(t, 1) = {} /\ FormerUnique(t, 1) = {}
      BY DEF Later, LaterUnique, LaterIndex, FormerNull, FormerUnique, Manifests, Revisions
    <2>2. Built[t] = JobRow
      BY DEF Built
    <2> HIDE DEF t
    <2>3. /\ Built[t].req \ Later(t, 1) =
               {"id", "job_type", "status", "payload", "required_capabilities", "attempt",
               "created_at", "updated_at"}
          /\ (Built[t].null \ Later(t, 1)) \cup FormerNull(t, 1)
                = {"project_id", "result", "error", "leased_to", "lease_id", "lease_expires_at"}
      BY <2>1, <2>2 DEF JobRow, Table
    <2>4. /\ (Built[t].unique \ LaterUnique(t, 1)) \cup FormerUnique(t, 1) = {}
          /\ Built[t].index \ LaterIndex(t, 1)
                = Each({"project_id", "job_type", "status"}) \cup {<<"status", "created_at">>}
          /\ Built[t].refs = {}
      BY <1>0, <2>1, <2>2 DEF JobRow, Table
    <2>5. QED
      BY <2>3, <2>4 DEF Version, t
  <1>5. Version("workers", 1) = Table(
         {"id", "capabilities", "models", "runtimes", "hardware", "status", "last_heartbeat"},
         {"display_name"}, {}, {}, {})
    <2> DEFINE t == "workers"
    <2>1. /\ Later(t, 1) = {}
          /\ LaterUnique(t, 1) = {} /\ LaterIndex(t, 1) = {}
          /\ FormerNull(t, 1) = {} /\ FormerUnique(t, 1) = {}
      BY DEF Later, LaterUnique, LaterIndex, FormerNull, FormerUnique, Manifests, Revisions
    <2>2. Built[t] = WorkerRow
      BY DEF Built
    <2> HIDE DEF t
    <2>3. /\ Built[t].req \ Later(t, 1) =
               {"id", "capabilities", "models", "runtimes", "hardware", "status", "last_heartbeat"}
          /\ (Built[t].null \ Later(t, 1)) \cup FormerNull(t, 1) = {"display_name"}
      BY <2>1, <2>2 DEF WorkerRow, Table
    <2>4. /\ (Built[t].unique \ LaterUnique(t, 1)) \cup FormerUnique(t, 1) = {}
          /\ Built[t].index \ LaterIndex(t, 1) = {}
          /\ Built[t].refs = {}
      BY <1>0, <2>1, <2>2 DEF WorkerRow, Table
    <2>5. QED
      BY <2>3, <2>4 DEF Version, t
  <1>6. Version("auth_sessions", 1) = Table(
         {"id", "token_hash", "csrf_token", "expires_at", "created_at"},
         {"revoked_at"}, {<<"token_hash">>}, Each({"token_hash", "expires_at"}), {})
    <2> DEFINE t == "auth_sessions"
    <2>1. /\ Later(t, 1) = {"last_seen_at"}
          /\ LaterUnique(t, 1) = {} /\ LaterIndex(t, 1) = {}
          /\ FormerNull(t, 1) = {} /\ FormerUnique(t, 1) = {}
      BY DEF Later, LaterUnique, LaterIndex, FormerNull, FormerUnique, Manifests, Revisions
    <2>2. Built[t] = AuthSessionTable
      BY DEF Built
    <2> HIDE DEF t
    <2>3. /\ Built[t].req \ Later(t, 1) =
               {"id", "token_hash", "csrf_token", "expires_at", "created_at"}
          /\ (Built[t].null \ Later(t, 1)) \cup FormerNull(t, 1) = {"revoked_at"}
      BY <2>1, <2>2 DEF AuthSessionTable, Table
    <2>4. /\ (Built[t].unique \ LaterUnique(t, 1)) \cup FormerUnique(t, 1) = {<<"token_hash">>}
          /\ Built[t].index \ LaterIndex(t, 1) = Each({"token_hash", "expires_at"})
          /\ Built[t].refs = {}
      BY <1>0, <2>1, <2>2 DEF AuthSessionTable, Table
    <2>5. QED
      BY <2>3, <2>4 DEF Version, t
  <1>7. Version("scene_revisions", 1) = Table(
         {"id", "project_id", "schema_version", "content_hash", "scene_json", "created_at"},
         {"parent_revision_id", "command_id"}, {<<"parent_revision_id">>},
         Each({"project_id", "content_hash"}), Owned)
    <2> DEFINE t == Revisions
    <2>1. /\ Later(t, 1) = {} /\ LaterUnique(t, 1) = {}
          /\ LaterIndex(t, 1) = {<<"parent_revision_id">>}
          /\ FormerNull(t, 1) = {} /\ FormerUnique(t, 1) = {<<"parent_revision_id">>}
      BY DEF Later, LaterUnique, LaterIndex, FormerNull, FormerUnique, Manifests, Revisions,
             ParentLock
    <2>2. Built[t] = SceneRevisionRow
      BY DEF Built, Revisions
    <2> HIDE DEF t
    <2>3. /\ Built[t].req \ Later(t, 1) =
               {"id", "project_id", "schema_version", "content_hash", "scene_json", "created_at"}
          /\ (Built[t].null \ Later(t, 1)) \cup FormerNull(t, 1)
               = {"parent_revision_id", "command_id"}
          /\ (Built[t].unique \ LaterUnique(t, 1)) \cup FormerUnique(t, 1)
               = {<<"parent_revision_id">>}
          /\ Built[t].refs = Owned
      BY <1>0, <2>1, <2>2 DEF SceneRevisionRow, Table
    <2>4. Built[t].index \ LaterIndex(t, 1) = Each({"project_id", "content_hash"})
      <3> DEFINE all == {"project_id", "parent_revision_id", "content_hash"}
      <3>1. Built[t].index = Each(all)
        BY <2>2 DEF SceneRevisionRow, Table
      <3>2. all \ {"parent_revision_id"} = {"project_id", "content_hash"}
        OBVIOUS
      <3> HIDE DEF all
      <3>3. Each(all) \ {<<"parent_revision_id">>} = Each(all \ {"parent_revision_id"})
        BY EachLess
      <3>4. QED
        BY <2>1, <3>1, <3>2, <3>3
    <2>5. QED
      BY <2>3, <2>4 DEF Version, t, Revisions
  <1>8. QED
    BY <1>1, <1>2, <1>3, <1>4, <1>5, <1>6, <1>7

\* The first migration builds them on nothing; going back leaves nothing.
LEMMA FirstStage ==
  /\ Upgraded(1, Stage(0)) = Stage(1)
  /\ Downgraded(1, Stage(1)) \in {Stage(1), Stage(0)}
  <1>1. TablesAt(0) = {} /\ TablesAt(1) = {"projects", "scene_revisions", "design_commands",
                                           "assets", "jobs", "workers", "auth_sessions"}
    BY DEF TablesAt, Revisions
  <1>2. Up0001(Stage(0)) = Stage(1)
    <2> DEFINE more == [
           projects |-> Version("projects", 1), scene_revisions |-> Version("scene_revisions", 1),
           design_commands |-> Version("design_commands", 1), assets |-> Version("assets", 1),
           jobs |-> Version("jobs", 1), workers |-> Version("workers", 1),
           auth_sessions |-> Version("auth_sessions", 1)]
    <2>1. Up0001(Stage(0)) = With(Stage(0), more)
      BY FirstVersions DEF Up0001
    <2>2. DOMAIN more = TablesAt(1) /\ \A t \in TablesAt(1) : more[t] = Version(t, 1)
      BY <1>1
    <2>3. DOMAIN Stage(0) = {}
      BY <1>1 DEF Stage
    <2> HIDE DEF more
    <2>4. QED
      BY <2>1, <2>2, <2>3 DEF With, Stage
  <1>3. Down0001(Stage(1)) \in {Stage(1), Stage(0)}
    <2> DEFINE s == Stage(1)
               order == <<"auth_sessions", "workers", "jobs", "assets", "design_commands",
                          "scene_revisions", "projects">>
               gone(i) == {order[k] : k \in 1..i}
    <2>1. Len(order) = 7 /\ TablesAt(1) \subseteq gone(7)
      <3>1. /\ order[1] = "auth_sessions" /\ order[2] = "workers" /\ order[3] = "jobs"
            /\ order[4] = "assets" /\ order[5] = "design_commands"
            /\ order[6] = "scene_revisions" /\ order[7] = "projects" /\ Len(order) = 7
        OBVIOUS
      <3> HIDE DEF order
      <3>2. QED
        BY <1>1, <3>1
    <2>2. Drop(s, order) = s \/ Drop(s, order) = [u \in DOMAIN s \ gone(Len(order)) |-> s[u]]
      BY DEF Drop
    <2> HIDE DEF gone, order
    <2>3. DOMAIN s = TablesAt(1)
      BY DEF Stage
    <2>4. DOMAIN s \ gone(7) = {}
      BY <2>1, <2>3
    <2>5. [u \in DOMAIN s \ gone(7) |-> s[u]] = Stage(0)
      BY <1>1, <2>4 DEF Stage
    <2>6. QED
      BY <2>1, <2>2, <2>5 DEF Down0001, order
  <1>4. QED
    BY <1>2, <1>3 DEF Upgraded, Downgraded

\* The second adds to the assets and to the jobs.
LEMMA SecondStage ==
  /\ Upgraded(2, Stage(1)) = Stage(2)
  /\ Downgraded(2, Stage(2)) = Stage(1)
  <1> DEFINE areq == {"role", "metadata_json", "source_asset_ids"}
             anull == {"duplicate_of_asset_id"}
             jreq == {"progress", "runtime_provenance"}
             jnull == {"idempotency_key", "correlation_id"}
             none == {}
  <1>1. LastAdds("assets", 1, 2, areq, anull, none, none)
    <2> DEFINE t == "assets"
    <2>1. /\ Later(t, 1) = areq \cup anull /\ Later(t, 2) = {}
          /\ \A m : LaterUnique(t, m) = {} /\ LaterIndex(t, m) = {}
          /\ \A m : FormerNull(t, m) = {} /\ FormerUnique(t, m) = {}
      BY DEF Later, LaterUnique, LaterIndex, FormerNull, FormerUnique, Manifests, Revisions
    <2>2. /\ areq \subseteq Built[t].req /\ areq \cap Built[t].null = {}
          /\ anull \subseteq Built[t].null /\ anull \cap Built[t].req = {}
      BY DEF Built, AssetRow, Table
    <2> HIDE DEF t, areq, anull
    <2>3. LastAdds(t, 1, 2, areq, anull, none, none)
      BY <2>1, <2>2 DEF LastAdds
    <2>4. QED
      BY <2>3 DEF t
  <1>2. LastAdds("jobs", 1, 2, jreq, jnull, JobsKey, none)
    <2> DEFINE t == "jobs"
    <2>1. /\ Later(t, 1) = jreq \cup jnull /\ Later(t, 2) = {}
          /\ LaterUnique(t, 1) = JobsKey /\ LaterUnique(t, 2) = {}
          /\ \A m : LaterIndex(t, m) = {} /\ FormerNull(t, m) = {} /\ FormerUnique(t, m) = {}
      BY DEF Later, LaterUnique, LaterIndex, FormerNull, FormerUnique, Manifests, Revisions
    <2>2. /\ jreq \subseteq Built[t].req /\ jreq \cap Built[t].null = {}
          /\ jnull \subseteq Built[t].null /\ jnull \cap Built[t].req = {}
      BY DEF Built, JobRow, Table
    <2>3. JobsKey \subseteq Built[t].unique
      BY DEF Built, JobRow, Table
    <2> HIDE DEF t, jreq, jnull
    <2>4. LastAdds(t, 1, 2, jreq, jnull, JobsKey, none)
      BY <2>1, <2>2, <2>3 DEF LastAdds
    <2>5. QED
      BY <2>4 DEF t
  <1>3. "assets" \in TablesAt(1) /\ "jobs" \in TablesAt(1) /\ TablesAt(2) = TablesAt(1)
    BY DEF TablesAt, Revisions
  <1>4. \A u \in TablesAt(2) : u \notin {"assets", "jobs"} => Version(u, 2) = Version(u, 1)
    BY VersionStays DEF ChangedBy, Latest
  <1>5. /\ {"runtime_provenance", "correlation_id", "progress", "idempotency_key"} = jreq \cup jnull
        /\ {"duplicate_of_asset_id", "source_asset_ids", "metadata_json", "role"} = areq \cup anull
    OBVIOUS
  <1> DEFINE mid == [Stage(1) EXCEPT !["assets"] = Version("assets", 2)]
  <1>6. /\ "assets" \in DOMAIN Stage(1) /\ Stage(1)["assets"] = Version("assets", 1)
        /\ "jobs" \in DOMAIN mid /\ mid["jobs"] = Version("jobs", 1)
        /\ "assets" \in DOMAIN mid /\ mid["assets"] = Version("assets", 2)
        /\ "jobs" \in DOMAIN Stage(2) /\ Stage(2)["jobs"] = Version("jobs", 2)
    BY <1>3 DEF Stage
  <1>7. /\ Stage(2) = [mid EXCEPT !["jobs"] = Version("jobs", 2)]
        /\ mid = [Stage(2) EXCEPT !["jobs"] = Version("jobs", 1)]
        /\ Stage(1) = [mid EXCEPT !["assets"] = Version("assets", 1)]
    BY <1>3, <1>4 DEF Stage
  <1>8. /\ \A s : Up0002(s) = Add(Add(s, "assets", areq, anull, none, none), "jobs", jreq, jnull,
                                  JobsKey, none)
        /\ \A s : Down0002(s) = Remove(Remove(s, "jobs", jreq \cup jnull, JobsKey, none),
                                       "assets", areq \cup anull, none, none)
    BY <1>5 DEF Up0002, Down0002
  <1>9. \A s : Upgraded(2, s) = Up0002(s) /\ Downgraded(2, s) = Down0002(s)
    BY DEF Upgraded, Downgraded
  <1>10. mid = [Stage(1) EXCEPT !["assets"] = Version("assets", 2)]
    OBVIOUS
  <1> HIDE DEF areq, anull, jreq, jnull, none, mid
  <1>11. Add(Stage(1), "assets", areq, anull, none, none) = mid
    BY <1>1, <1>6, <1>10, LastAdded
  <1>12. Add(mid, "jobs", jreq, jnull, JobsKey, none) = Stage(2)
    BY <1>2, <1>6, <1>7, LastAdded
  <1>13. Remove(Stage(2), "jobs", jreq \cup jnull, JobsKey, none) = mid
    BY <1>2, <1>6, <1>7, LastRemoved
  <1>14. Remove(mid, "assets", areq \cup anull, none, none) = Stage(1)
    BY <1>1, <1>6, <1>7, LastRemoved
  <1>15. QED
    BY <1>8, <1>9, <1>11, <1>12, <1>13, <1>14

\* A constraint and nothing else added.
LEMMA AddUnique ==
  ASSUME NEW s, NEW t \in DOMAIN s, NEW a, NEW b, NEW c, NEW d, NEW e,
         s[t] = Table(a, b, c, d, e), NEW none, NEW lock, NEW v,
         v = Table(a \cup none, b \cup none, c \cup lock, d \cup none, e)
  PROVE  Add(s, t, none, none, lock, none) = [s EXCEPT ![t] = v]
  <1> DEFINE f == Add(s, t, none, none, lock, none)
  <1>1. /\ s[t].req = a /\ s[t].null = b /\ s[t].unique = c /\ s[t].index = d /\ s[t].refs = e
        /\ DOMAIN s[t] = {"req", "null", "unique", "index", "refs"}
    BY DEF Table
  <1>2. f[t] = [x \in DOMAIN f[t] |-> f[t][x]] /\ DOMAIN f[t] = DOMAIN s[t]
    BY DEF Add
  <1>3. f[t].req = s[t].req \cup none /\ f[t].null = s[t].null \cup none
    BY <1>1 DEF Add
  <1>4. /\ f[t].unique = s[t].unique \cup lock /\ f[t].index = s[t].index \cup none
        /\ f[t].refs = s[t].refs
    BY <1>1 DEF Add
  <1>5. DOMAIN f = DOMAIN s /\ \A u \in DOMAIN s : u # t => f[u] = s[u]
    BY DEF Add
  <1>6. f = [u \in DOMAIN f |-> f[u]]
    BY DEF Add
  <1> HIDE DEF f
  <1>7. f[t] = v
    BY <1>1, <1>2, <1>3, <1>4 DEF Table
  <1>8. f = [s EXCEPT ![t] = v]
    BY <1>5, <1>6, <1>7
  <1>9. QED
    BY <1>8 DEF f

\* The lock on the parent goes and a plain index comes.
LEMMA LockToIndex ==
  ASSUME NEW s, Revisions \in DOMAIN s
  PROVE  /\ s[Revisions] = Version(Revisions, 14) =>
              Add(Remove(s, Revisions, {}, ParentLock, {}), Revisions, {}, {}, {},
                  {<<"parent_revision_id">>})
                = [s EXCEPT ![Revisions] = Version(Revisions, 15)]
         /\ s[Revisions] = Version(Revisions, 15) =>
              Add(Remove(s, Revisions, {}, {}, {<<"parent_revision_id">>}), Revisions, {}, {},
                  ParentLock, {})
                = [s EXCEPT ![Revisions] = Version(Revisions, 14)]
  <1> DEFINE t == Revisions
             D == SceneRevisionRow
             less == Each({"project_id", "content_hash"})
             lock == ParentLock
             none == {}
             index == {<<"parent_revision_id">>}
  <1>1. /\ Version(t, 14) = Table(D.req, D.null, lock, less, Owned)
        /\ Version(t, 15) = Table(D.req, D.null, none, less \cup index, Owned)
    <2>1. /\ \A n : Later(t, n) = {} /\ LaterUnique(t, n) = {} /\ FormerNull(t, n) = {}
          /\ LaterIndex(t, 14) = index /\ LaterIndex(t, 15) = {}
          /\ FormerUnique(t, 14) = lock /\ FormerUnique(t, 15) = {}
      BY DEF Later, LaterUnique, LaterIndex, FormerNull, FormerUnique, Manifests, Revisions
    <2>2. Built[t] = D
      BY DEF Built, Revisions
    <2>3. D.unique = {} /\ D.refs = Owned
      BY DEF SceneRevisionRow, Table
    <2>4. D.index \ index = less /\ D.index = less \cup index
      <3> DEFINE all == {"project_id", "parent_revision_id", "content_hash"}
      <3>1. D.index = Each(all)
        BY DEF SceneRevisionRow, Table
      <3>2. /\ all \ {"parent_revision_id"} = {"project_id", "content_hash"}
            /\ {"project_id", "content_hash"} \cup {"parent_revision_id"} = all
        OBVIOUS
      <3> HIDE DEF all
      <3>3. /\ Each(all) \ {<<"parent_revision_id">>} = Each(all \ {"parent_revision_id"})
            /\ less \cup index = Each({"project_id", "content_hash"} \cup {"parent_revision_id"})
        BY EachLess
      <3>4. QED
        BY <3>1, <3>2, <3>3
    <2>5. \A S : S \ {} = S /\ S \cup {} = S /\ {} \cup S = S
      OBVIOUS
    <2> HIDE DEF t, D, less, lock, index
    <2>6. QED
      BY <2>1, <2>2, <2>3, <2>4, <2>5 DEF Version
  <1>2. /\ less \ index = less /\ (less \cup index) \ index = less
        /\ \A S : S \ none = S /\ S \cup none = S /\ none \cup S = S
        /\ lock \ lock = none
    BY DEF Each
  <1> HIDE DEF t, D, less, lock, none, index
  <1>3. ASSUME s[t] = Version(t, 14), t \in DOMAIN s
        PROVE  Add(Remove(s, t, none, lock, none), t, none, none, none, index)
                 = [s EXCEPT ![t] = Version(t, 15)]
    <2> DEFINE m == Table(D.req, D.null, none, less, Owned)
               a == [s EXCEPT ![t] = m]
    <2>1. m = Table(D.req \ none, D.null \ none, lock \ lock, less \ none, Owned)
      BY <1>2
    <2>2. Version(t, 15) = Table(D.req \cup none, D.null \cup none, none \cup none,
                                 less \cup index, Owned)
      BY <1>1, <1>2
    <2>3. s[t] = Table(D.req, D.null, lock, less, Owned)
      BY <1>1, <1>3
    <2>4. t \in DOMAIN a /\ a[t] = Table(D.req, D.null, none, less, Owned)
          /\ [a EXCEPT ![t] = Version(t, 15)] = [s EXCEPT ![t] = Version(t, 15)]
      BY <1>3
    <2>5. a = [s EXCEPT ![t] = m]
      OBVIOUS
    <2> HIDE DEF m, a
    <2>6. Remove(s, t, none, lock, none) = a
      BY <1>3, <2>1, <2>3, <2>5, RemoveAt
    <2>7. Add(a, t, none, none, none, index) = [a EXCEPT ![t] = Version(t, 15)]
      BY <2>2, <2>4, AddAt
    <2>8. QED
      BY <2>4, <2>6, <2>7
  <1>4. ASSUME s[t] = Version(t, 15), t \in DOMAIN s
        PROVE  Add(Remove(s, t, none, none, index), t, none, none, lock, none)
                 = [s EXCEPT ![t] = Version(t, 14)]
    <2> DEFINE m == Table(D.req, D.null, none, less, Owned)
               a == [s EXCEPT ![t] = m]
    <2>1. m = Table(D.req \ none, D.null \ none, none \ none, (less \cup index) \ index, Owned)
      BY <1>2
    <2>2. Version(t, 14) = Table(D.req \cup none, D.null \cup none, none \cup lock,
                                 less \cup none, Owned)
      BY <1>1, <1>2
    <2>3. s[t] = Table(D.req, D.null, none, less \cup index, Owned)
      BY <1>1, <1>4
    <2>4. t \in DOMAIN a /\ a[t] = Table(D.req, D.null, none, less, Owned)
          /\ [a EXCEPT ![t] = Version(t, 14)] = [s EXCEPT ![t] = Version(t, 14)]
      BY <1>4
    <2>5. a = [s EXCEPT ![t] = m]
      OBVIOUS
    <2> HIDE DEF m, a
    <2>6. Remove(s, t, none, none, index) = a
      BY <1>4, <2>1, <2>3, <2>5, RemoveAt
    <2>7. Add(a, t, none, none, lock, none) = [a EXCEPT ![t] = Version(t, 14)]
      BY <2>2, <2>4, AddUnique
    <2>8. QED
      BY <2>2, <2>4, <2>6, <2>7
  <1>5. QED
    BY <1>3, <1>4 DEF t, none, lock, index

\* Two tables dropped: both go, or a table that refers to one keeps them.
LEMMA DropTwo ==
  ASSUME NEW s, NEW x, NEW y
  PROVE  Drop(s, <<x, y>>) \in {s, [t \in DOMAIN s \ {x, y} |-> s[t]]}
  <1> DEFINE order == <<x, y>>
             gone(i) == {order[k] : k \in 1..i}
  <1>1. Len(order) = 2 /\ gone(2) = {x, y}
    <2>1. order[1] = x /\ order[2] = y /\ Len(order) = 2
      OBVIOUS
    <2> HIDE DEF order
    <2>2. QED
      BY <2>1
  <1>2. Drop(s, order) = s \/ Drop(s, order) = [t \in DOMAIN s \ gone(Len(order)) |-> s[t]]
    BY DEF Drop
  <1> HIDE DEF gone, order
  <1>3. QED
    BY <1>1, <1>2 DEF order

\* When no table refers to them they go.
LEMMA DropFree ==
  ASSUME NEW s, NEW x, NEW y, \A t \in DOMAIN s : \A r \in s[t].refs : r[2] \notin {x, y}
  PROVE  Drop(s, <<x, y>>) = [t \in DOMAIN s \ {x, y} |-> s[t]]
  <1> DEFINE order == <<x, y>>
             gone(i) == {order[k] : k \in 1..i}
             held == \E i \in 1..Len(order), t \in DOMAIN s :
                       t \notin gone(i) /\ \E r \in s[t].refs : r[2] = order[i]
  <1>1. Len(order) = 2 /\ order[1] = x /\ order[2] = y
    OBVIOUS
  <1>2. Drop(s, order) = IF held THEN s ELSE [t \in DOMAIN s \ gone(Len(order)) |-> s[t]]
    BY DEF Drop
  <1> HIDE DEF order
  <1>3. gone(2) = {x, y}
    BY <1>1
  <1>4. \A i \in 1..Len(order) : order[i] \in {x, y}
    BY <1>1
  <1> HIDE DEF gone
  <1>5. ~held
    BY <1>4
  <1> HIDE DEF held
  <1>6. QED
    BY <1>1, <1>2, <1>3, <1>5 DEF order

\* The seventeenth creates two tables.
LEMMA SeventeenthStage ==
  /\ Upgraded(17, Stage(16)) = Stage(17)
  /\ Downgraded(17, Stage(17)) \in {Stage(17), Stage(16)}
  <1> DEFINE one == "progress_snapshots"
             two == "deviations"
  <1>1. TablesAt(17) = TablesAt(16) \cup {one, two} /\ one \notin TablesAt(16)
        /\ two \notin TablesAt(16) /\ one # two
    BY DEF TablesAt, Revisions
  <1>2. \A u : Version(u, 17) = Version(u, 16)
    BY VersionStays DEF Latest, ChangedBy
  <1>3. Version(one, 17) = ProgressSnapshotRow /\ Version(two, 17) = DeviationRow
    BY PlainVersion DEF Plain, Built, Revisions, Manifests
  <1>4. \A s : Up0017(s) = Create(Create(s, one, ProgressSnapshotRow), two, DeviationRow)
    <2>1. Each({"project_id"}) \cup {<<"project_id", "created_at">>, <<"project_id", "stage">>,
             <<"project_id", "compare_target_kind", "compare_target_revision_id">>}
          = {<<"project_id">>, <<"project_id", "created_at">>, <<"project_id", "stage">>,
             <<"project_id", "compare_target_kind", "compare_target_revision_id">>}
      <3>1. Each({"project_id"}) = {<<"project_id">>}
        BY EachOf
      <3>2. QED
        BY <3>1
    <2>2. Each({"project_id", "snapshot_id"})
             \cup {<<"project_id", "snapshot_id", "status">>,
                   <<"project_id", "planned_entity_id">>, <<"project_id", "accepted_revision_id">>}
          = {<<"project_id">>, <<"snapshot_id">>, <<"project_id", "snapshot_id", "status">>,
             <<"project_id", "planned_entity_id">>, <<"project_id", "accepted_revision_id">>}
      <3>1. Each({"project_id", "snapshot_id"}) = {<<"project_id">>, <<"snapshot_id">>}
        BY EachOf
      <3>2. QED
        BY <3>1
    <2>3. QED
      BY <2>1, <2>2 DEF Up0017, ProgressSnapshotRow, DeviationRow
  <1>5. \A s : Upgraded(17, s) = Up0017(s) /\ Downgraded(17, s) = Drop(s, <<two, one>>)
    BY DEF Upgraded, Downgraded, Down0017
  <1> HIDE DEF one, two
  <1>6. Create(Create(Stage(16), one, Version(one, 17)), two, Version(two, 17)) = Stage(17)
    <2> DEFINE mid == [u \in TablesAt(16) \cup {one} |-> Version(u, 17)]
    <2>1. Create(Stage(16), one, Version(one, 17)) = mid
      BY <1>1, <1>2 DEF Create, With, Stage
    <2>2. Create(mid, two, Version(two, 17)) = Stage(17)
      BY <1>1 DEF Create, With, Stage
    <2>3. QED
      BY <2>1, <2>2
  <1>7. [t \in DOMAIN Stage(17) \ {two, one} |-> Stage(17)[t]] = Stage(16)
    BY <1>1, <1>2 DEF Stage
  <1>8. Drop(Stage(17), <<two, one>>) \in {Stage(17), Stage(16)}
    BY <1>7, DropTwo
  <1>9. QED
    BY <1>3, <1>4, <1>5, <1>6, <1>8

\* between the fourteenth and the fifteenth migration: the tables of S, those of N done
Between(S, N) == [t \in S |-> IF t \in N THEN Version(t, 15) ELSE Version(t, 14)]

\* One more of the tables is done ...
LEMMA OneMore ==
  ASSUME NEW S, NEW N, NEW t \in S, t \notin N
  PROVE  /\ t \in DOMAIN Between(S, N) /\ Between(S, N)[t] = Version(t, 14)
         /\ [Between(S, N) EXCEPT ![t] = Version(t, 15)] = Between(S, N \cup {t})
  BY DEF Between

\* One of those done is undone ...
LEMMA OneLess ==
  ASSUME NEW S, NEW N, NEW t \in S, t \notin N
  PROVE  /\ t \in DOMAIN Between(S, N \cup {t}) /\ Between(S, N \cup {t})[t] = Version(t, 15)
         /\ [Between(S, N \cup {t}) EXCEPT ![t] = Version(t, 14)] = Between(S, N)
  BY DEF Between

\* ... or one more is created.
LEMMA OneCreated ==
  ASSUME NEW S, NEW N, NEW t, t \notin S, t \notin N
  PROVE  Create(Between(S, N), t, Version(t, 14)) = Between(S \cup {t}, N)
  BY DEF Create, With, Between

\* What the manifests still lack before the fifteenth.
LEMMA ManifestsLack ==
  ASSUME NEW t \in Manifests
  PROVE  LastAdds(t, 14, 15, {}, {"variant_id"}, {}, {<<"variant_id">>})
  <1>1. /\ Later(t, 14) = {"variant_id"} /\ Later(t, 15) = {}
        /\ LaterIndex(t, 14) = {<<"variant_id">>} /\ LaterIndex(t, 15) = {}
        /\ \A m : LaterUnique(t, m) = {} /\ FormerNull(t, m) = {} /\ FormerUnique(t, m) = {}
    BY DEF Later, LaterUnique, LaterIndex, FormerNull, FormerUnique, Manifests, Revisions
  <1>2. {"variant_id"} \subseteq Built[t].null /\ {"variant_id"} \cap Built[t].req = {}
    BY DEF Manifests, Built, RenderManifestTable, GenerationManifestTable, Table
  <1>3. {<<"variant_id">>} \subseteq Built[t].index
    <2>1. Built[t].index \in
            {Each({"project_id", "scene_revision_id", "variant_id"}) \cup UniqueIndex("job_id"),
             Each({"project_id", "scene_revision_id", "design_revision_id", "variant_id"})
               \cup UniqueIndex("job_id")}
      BY DEF Manifests, Built, RenderManifestTable, GenerationManifestTable, Table
    <2>2. \A S : "variant_id" \in S => <<"variant_id">> \in Each(S)
      BY DEF Each
    <2>3. QED
      BY <2>1, <2>2
  <1>4. QED
    BY <1>1, <1>2, <1>3 DEF LastAdds

\* What the fifteenth does to the two kinds of manifest.
LEMMA ManifestsLinked ==
  ASSUME NEW t \in Manifests, NEW s, t \in DOMAIN s, s[t] = Version(t, 14)
  PROVE  Linked(s, t) = [s EXCEPT ![t] = Version(t, 15)]
  <1> DEFINE none == {}
             col == {"variant_id"}
             index == {<<"variant_id">>}
  <1>1. LastAdds(t, 14, 15, none, col, none, index)
    BY ManifestsLack
  <1>2. Linked(s, t) = Add(s, t, none, col, none, index)
    BY DEF Linked
  <1> HIDE DEF none, col, index
  <1>3. Add(s, t, none, col, none, index) = [s EXCEPT ![t] = Version(t, 15)]
    BY <1>1, LastAdded
  <1>4. QED
    BY <1>2, <1>3

\* ... and takes back.
LEMMA ManifestsUnlinked ==
  ASSUME NEW t \in Manifests, NEW s, t \in DOMAIN s, s[t] = Version(t, 15)
  PROVE  Unlinked(s, t) = [s EXCEPT ![t] = Version(t, 14)]
  <1> DEFINE none == {}
             col == {"variant_id"}
             index == {<<"variant_id">>}
  <1>1. LastAdds(t, 14, 15, none, col, none, index)
    BY ManifestsLack
  <1>2. Unlinked(s, t) = Remove(s, t, none \cup col, none, index)
    BY DEF Unlinked
  <1> HIDE DEF none, col, index
  <1>3. Remove(s, t, none \cup col, none, index) = [s EXCEPT ![t] = Version(t, 14)]
    BY <1>1, LastRemoved
  <1>4. QED
    BY <1>2, <1>3

\* the two tables of the fifteenth
Variants == "scene_variants"
Budget == "budget_items"

\* The fifteenth creates two tables and changes three.
LEMMA FifteenthTables ==
  /\ TablesAt(15) = TablesAt(14) \cup {Variants, Budget}
  /\ {Revisions} \cup Manifests \subseteq TablesAt(14)
  /\ Variants \notin TablesAt(14) /\ Budget \notin TablesAt(14) /\ Variants # Budget
  /\ Revisions \notin Manifests
  /\ \A t : t \notin {Revisions} \cup Manifests => Version(t, 15) = Version(t, 14)
  /\ \A m : Version(Variants, m) = SceneVariantRow /\ Version(Budget, m) = BudgetItemRow
  /\ \A N : N \subseteq TablesAt(14) /\ {Revisions} \cup Manifests \subseteq N =>
       Stage(15) = Between(TablesAt(15), N)
  /\ Stage(14) = Between(TablesAt(14), {})
  <1>1. /\ TablesAt(15) = TablesAt(14) \cup {Variants, Budget}
        /\ {Revisions} \cup Manifests \subseteq TablesAt(14)
        /\ Variants \notin TablesAt(14) /\ Budget \notin TablesAt(14) /\ Variants # Budget
        /\ Revisions \notin Manifests
    BY DEF TablesAt, Revisions, Manifests, Variants, Budget
  <1>2. \A t : t \notin {Revisions} \cup Manifests => Version(t, 15) = Version(t, 14)
    BY VersionStays DEF Latest, ChangedBy
  <1>3. \A m : Version(Variants, m) = SceneVariantRow /\ Version(Budget, m) = BudgetItemRow
    BY PlainVersion DEF Plain, Built, Revisions, Manifests, Variants, Budget
  <1>4. \A N : N \subseteq TablesAt(14) /\ {Revisions} \cup Manifests \subseteq N =>
          Stage(15) = Between(TablesAt(15), N)
    BY <1>2 DEF Stage, Between
  <1>5. Stage(14) = Between(TablesAt(14), {})
    BY DEF Stage, Between
  <1>6. QED
    BY <1>1, <1>2, <1>3, <1>4, <1>5

\* The fifteenth, one change after the other.
LEMMA FifteenthUp == Up0015(Stage(14)) = Stage(15)
  <1> DEFINE before == TablesAt(14)
             some == before \cup {Variants}
             one == "render_manifests"
             two == "generation_manifests"
             none == {}
             s0 == Between(before, none)
             s1 == Between(before, none \cup {Revisions})
             s2 == Between(some, none \cup {Revisions})
             s3 == Between(some, none \cup {Revisions} \cup {one})
             s4 == Between(some, none \cup {Revisions} \cup {one} \cup {two})
  <1>1. /\ Revisions \in before /\ Revisions \notin none
        /\ one \in some /\ one \notin none \cup {Revisions} /\ one \in Manifests
        /\ two \in some /\ two \notin none \cup {Revisions} \cup {one} /\ two \in Manifests
        /\ Variants \notin none \cup {Revisions}
        /\ Budget \notin none \cup {Revisions} \cup {one} \cup {two}
    BY FifteenthTables DEF Manifests, Revisions, Variants, Budget
  <1>2. Stage(15) = Between(some \cup {Budget}, none \cup {Revisions} \cup {one} \cup {two})
    <2>1. {Revisions} \cup Manifests = none \cup {Revisions} \cup {one} \cup {two}
      BY DEF Manifests
    <2>2. some \cup {Budget} = TablesAt(15)
      BY FifteenthTables
    <2>3. QED
      BY <2>1, <2>2, FifteenthTables
  <1>3. Variants \notin before /\ Budget \notin some
    BY FifteenthTables
  <1>4. Stage(14) = s0
    BY FifteenthTables
  <1>5. ParentLock \cap s0[Revisions].unique # {}
    <2>1. s0[Revisions] = Version(Revisions, 14)
      BY <1>1 DEF Between
    <2>2. ParentLock \subseteq Version(Revisions, 14).unique
      BY DEF Version, FormerUnique, Table
    <2>3. QED
      BY <2>1, <2>2 DEF ParentLock
  <1>6. /\ \A s : Create(s, Variants, SceneVariantRow)
                    = Create(s, Variants, Version(Variants, 14))
        /\ \A s : Create(s, Budget, BudgetItemRow) = Create(s, Budget, Version(Budget, 14))
    BY FifteenthTables
  <1> DEFINE unlocked(s) == Add(Remove(s, Revisions, {}, ParentLock, {}), Revisions, {}, {}, {},
                                {<<"parent_revision_id">>})
  <1>7. \A s : ParentLock \cap s[Revisions].unique # {} =>
          Up0015(s) = Create(Linked(Linked(Create(unlocked(s), Variants, SceneVariantRow), one),
                                    two), Budget, BudgetItemRow)
    <2>1. Each({"project_id", "variant_id"})
            \cup {<<"project_id", "variant_id">>, <<"variant_id", "scene_revision_id">>}
          = {<<"project_id">>, <<"variant_id">>, <<"project_id", "variant_id">>,
             <<"variant_id", "scene_revision_id">>}
      <3>1. Each({"project_id", "variant_id"}) = {<<"project_id">>, <<"variant_id">>}
        BY EachOf
      <3>2. QED
        BY <3>1
    <2>2. QED
      BY <2>1 DEF Up0015, SceneVariantRow, BudgetItemRow, Variants, Budget, Revisions
  <1>8. unlocked(s0) = s1
    <2> HIDE DEF before, none
    <2>1. Revisions \in DOMAIN s0 /\ s0[Revisions] = Version(Revisions, 14)
          /\ [s0 EXCEPT ![Revisions] = Version(Revisions, 15)] = s1
      BY <1>1, OneMore
    <2> HIDE DEF s0, s1
    <2>2. QED
      BY <2>1, LockToIndex
  <1> HIDE DEF unlocked, before, none, some, one, two
  <1>9. Create(s1, Variants, Version(Variants, 14)) = s2
    BY <1>1, <1>3, OneCreated DEF some
  <1>10. Linked(s2, one) = s3
    <2>1. one \in DOMAIN s2 /\ s2[one] = Version(one, 14)
          /\ [s2 EXCEPT ![one] = Version(one, 15)] = s3
      BY <1>1, OneMore
    <2> HIDE DEF s2, s3
    <2>2. QED
      BY <1>1, <2>1, ManifestsLinked
  <1>11. Linked(s3, two) = s4
    <2>1. two \in DOMAIN s3 /\ s3[two] = Version(two, 14)
          /\ [s3 EXCEPT ![two] = Version(two, 15)] = s4
      BY <1>1, OneMore
    <2> HIDE DEF s3, s4
    <2>2. QED
      BY <1>1, <2>1, ManifestsLinked
  <1>12. Create(s4, Budget, Version(Budget, 14)) = Stage(15)
    BY <1>1, <1>2, <1>3, OneCreated
  <1> HIDE DEF s0, s1, s2, s3, s4
  <1>13. QED
    BY <1>4, <1>5, <1>6, <1>7, <1>8, <1>9, <1>10, <1>11, <1>12

\* And back, one change after the other; refused while there are variants or a fork.
LEMMA FifteenthDown == Down0015(Stage(15)) \in {Stage(15), Stage(14)}
  <1> DEFINE before == TablesAt(14)
             one == "render_manifests"
             two == "generation_manifests"
             none == {}
             s1 == Between(before, none \cup {Revisions})
             s2 == Between(before, none \cup {Revisions} \cup {two})
             s3 == Between(before, none \cup {Revisions} \cup {two} \cup {one})
  <1>1. /\ Revisions \in before /\ Revisions \notin none
        /\ one \in before /\ one \notin none \cup {Revisions} \cup {two} /\ one \in Manifests
        /\ two \in before /\ two \notin none \cup {Revisions} /\ two \in Manifests
    BY FifteenthTables DEF Manifests, Revisions
  <1>2. Drop(Stage(15), <<Budget, Variants>>) = s3
    <2>1. \A t \in DOMAIN Stage(15) : \A r \in Stage(15)[t].refs : r[2] \notin {Budget, Variants}
      <3>1. \A t \in DOMAIN Stage(15) : Stage(15)[t].refs = Built[t].refs
        BY DEF Stage, Version, Table
      <3>2. DOMAIN Stage(15) \subseteq DOMAIN Built
        BY BuiltTables DEF Stage, TablesAt, Latest
      <3>3. QED
        BY <3>1, <3>2, BuiltTables DEF Budget, Variants
    <2>2. Drop(Stage(15), <<Budget, Variants>>)
            = [t \in DOMAIN Stage(15) \ {Budget, Variants} |-> Stage(15)[t]]
      BY <2>1, DropFree
    <2>3. DOMAIN Stage(15) \ {Budget, Variants} = before
      BY FifteenthTables DEF Stage
    <2>4. \A t \in before : Stage(15)[t] = s3[t]
      <3>1. none \cup {Revisions} \cup {two} \cup {one} = {Revisions} \cup Manifests
        BY DEF Manifests
      <3>2. \A t \in before : Stage(15)[t] = Version(t, 15)
        BY FifteenthTables DEF Stage
      <3>3. QED
        BY <3>1, <3>2, FifteenthTables DEF Between
    <2>5. s3 = [t \in before |-> s3[t]]
      BY DEF Between
    <2> HIDE DEF s3, before
    <2>6. QED
      BY <2>2, <2>3, <2>4, <2>5
  <1>3. Stage(14) = Between(before, none)
    BY FifteenthTables
  <1> DEFINE locked(s) == Add(Remove(s, Revisions, {}, {}, {<<"parent_revision_id">>}), Revisions,
                              {}, {}, ParentLock, {})
  <1>4. \A s : Down0015(s) \in
          {s, locked(Unlinked(Unlinked(Drop(s, <<Budget, Variants>>), one), two))}
    BY DEF Down0015, Variants, Budget, Revisions
  <1>5. locked(s1) = Between(before, none)
    <2> HIDE DEF before, none
    <2>1. Revisions \in DOMAIN s1 /\ s1[Revisions] = Version(Revisions, 15)
          /\ [s1 EXCEPT ![Revisions] = Version(Revisions, 14)] = Between(before, none)
      BY <1>1, OneLess
    <2> HIDE DEF s1
    <2>2. QED
      BY <2>1, LockToIndex
  <1> HIDE DEF locked, before, none, one, two
  <1>6. Unlinked(s2, two) = s1
    <2>1. two \in DOMAIN s2 /\ s2[two] = Version(two, 15)
          /\ [s2 EXCEPT ![two] = Version(two, 14)] = s1
      BY <1>1, OneLess
    <2> HIDE DEF s2, s1
    <2>2. QED
      BY <1>1, <2>1, ManifestsUnlinked
  <1>7. Unlinked(s3, one) = s2
    <2>1. one \in DOMAIN s3 /\ s3[one] = Version(one, 15)
          /\ [s3 EXCEPT ![one] = Version(one, 14)] = s2
      BY <1>1, OneLess
    <2> HIDE DEF s3, s2
    <2>2. QED
      BY <1>1, <2>1, ManifestsUnlinked
  <1> HIDE DEF s1, s2, s3
  <1>8. QED
    BY <1>2, <1>3, <1>4, <1>5, <1>6, <1>7

\* Every migration takes its stage to the next, and its downgrade takes it back or is
\* refused.
LEMMA StageSteps ==
  ASSUME NEW n \in 1..Latest
  PROVE  /\ Upgraded(n, Stage(n - 1)) = Stage(n)
         /\ Downgraded(n, Stage(n)) \in {Stage(n), Stage(n - 1)}
  <1>1. CASE n \in {1, 2}
    BY <1>1, FirstStage, SecondStage
  <1>2. CASE n \in {3, 9, 16}
    BY <1>2, ColumnsAdded
  <1>3. CASE n \in {4, 5, 6, 7, 8, 12, 13, 14}
    BY <1>3, OneTables
  <1>4. CASE n \in {10, 11}
    BY <1>4, TelemetryComesAndGoes
  <1>5. CASE n = 15
    BY <1>5, FifteenthUp, FifteenthDown DEF Upgraded, Downgraded
  <1>6. CASE n = 17
    BY <1>6, SeventeenthStage
  <1>7. QED
    BY <1>1, <1>2, <1>3, <1>4, <1>5, <1>6 DEF Latest

\* The chain of migrations is the sequence of the stages.
LEMMA ChainIsStages == \A n \in 0..Latest : Chain[n] = Stage(n)
  <1> DEFINE bare == [t \in {} |-> Table({}, {}, {}, {}, {})]
             Eq(f) == f = [n \in 0..Latest |-> IF n = 0 THEN bare ELSE Upgraded(n, f[n - 1])]
             g == [n \in 0..Latest |-> Stage(n)]
  <1>1. bare = Stage(0)
    <2>1. TablesAt(0) = {}
      BY DEF TablesAt
    <2>2. QED
      BY <2>1 DEF Stage
  <1>2. Eq(g)
    <2>1. \A n \in 0..Latest : g[n] = IF n = 0 THEN bare ELSE Upgraded(n, g[n - 1])
      <3> SUFFICES ASSUME NEW n \in 0..Latest, n # 0 PROVE g[n] = Upgraded(n, g[n - 1])
        BY <1>1
      <3>1. n \in 1..Latest /\ n - 1 \in 0..Latest
        BY DEF Latest
      <3>2. Upgraded(n, Stage(n - 1)) = Stage(n)
        BY <3>1, StageSteps
      <3>3. QED
        BY <3>1, <3>2
    <2> HIDE DEF bare
    <2>2. QED
      BY <2>1
  <1>3. Chain = CHOOSE f : Eq(f)
    BY DEF Chain
  <1> HIDE DEF g, bare
  <1>4. Eq(Chain)
    <2> HIDE DEF Eq
    <2>1. QED
      BY <1>2, <1>3
  <1> DEFINE P(n) == Chain[n] = Stage(n)
  <1>5. P(0)
    BY <1>1, <1>4 DEF Latest
  <1>6. \A n \in 1..Latest : P(n - 1) => P(n)
    <2> SUFFICES ASSUME NEW n \in 1..Latest, P(n - 1) PROVE P(n)
      OBVIOUS
    <2>1. Chain[n] = Upgraded(n, Chain[n - 1])
      BY <1>4 DEF Latest
    <2>2. QED
      BY <2>1, StageSteps
  <1> HIDE DEF P
  <1>7. P(0) /\ P(1) /\ P(2) /\ P(3) /\ P(4) /\ P(5) /\ P(6)
    BY <1>5, <1>6 DEF Latest
  <1>8. P(7) /\ P(8) /\ P(9) /\ P(10) /\ P(11) /\ P(12)
    BY <1>6, <1>7 DEF Latest
  <1>9. P(13) /\ P(14) /\ P(15) /\ P(16) /\ P(17)
    BY <1>6, <1>8 DEF Latest
  <1>10. \A n \in 0..Latest : P(n)
    BY <1>7, <1>8, <1>9 DEF Latest
  <1>11. QED
    BY <1>10 DEF P

\* the inductive invariant: the schema is the stage of the version it is at
InStage == at \in 0..Latest /\ tables = Stage(at)

\* Whatever upgrades and downgrades led here, the schema is the one that a fresh database
\* upgraded as far has, and at the latest version what the ORM takes for granted: its
\* columns, its foreign keys, what is unique and what has an index
\* (alembic's upgrade and downgrade of migrations/versions 0001 to 0017 against
\* db/models.py).
THEOREM ChainHolds == SchemaSpec => []ChainSound
  <1>1. SchemaInit => InStage
    <2>1. TablesAt(0) = {}
      BY DEF TablesAt
    <2>2. QED
      BY <2>1 DEF SchemaInit, InStage, Stage, Latest
  <1>2. InStage /\ [SchemaNext]_schemaVars => InStage'
    <2> SUFFICES ASSUME InStage, [SchemaNext]_schemaVars PROVE InStage'
      OBVIOUS
    <2>1. CASE Upgrade
      <3>1. at + 1 \in 1..Latest /\ (at + 1) - 1 = at
        BY <2>1 DEF Upgrade, InStage, Latest
      <3>2. Upgraded(at + 1, Stage(at)) = Stage(at + 1)
        BY <3>1, StageSteps
      <3>3. QED
        BY <2>1, <3>1, <3>2 DEF Upgrade, InStage, Latest
    <2>2. CASE Downgrade
      <3>1. at \in 1..Latest /\ at - 1 \in 0..Latest
        BY <2>2 DEF Downgrade, InStage, Latest
      <3>2. Downgraded(at, Stage(at)) \in {Stage(at), Stage(at - 1)}
        BY <3>1, StageSteps
      <3>3. QED
        BY <2>2, <3>1, <3>2 DEF Downgrade, InStage
    <2>3. CASE UNCHANGED <<at, tables>>
      BY <2>3 DEF InStage, Stage, TablesAt, Version
    <2>4. QED
      BY <2>1, <2>2, <2>3 DEF SchemaNext, SecondChild, DeleteRows, FirstRow, LastRow, schemaVars
  <1>3. InStage => ChainSound
    BY ChainIsStages, StageBuilt, BuiltServes DEF InStage, ChainSound
  <1>4. QED
    BY <1>1, <1>2, <1>3, PTL DEF SchemaSpec
=============================================================================
