---------------------------- MODULE SceneCommands ----------------------------
(***************************************************************************)
(* The command engine: what one command does to the entities of a scene    *)
(* (domain/commands.py), for the three that send commands: the owner       *)
(* (every operation but the acceptance of a deviation), the design agent   *)
(* (the operations it has a tool for), and the acceptance of a deviation   *)
(* (any other operation, embedded in it).  A rejected command is no step.  *)
(* How commands become revisions is SceneHistory's subject.                *)
(***************************************************************************)
CONSTANTS
  Ids,     \* ids of entities
  Values,  \* material refs, colours, poses, reference assets, intents of a light
  Unset,   \* the field is absent
  Offered  \* entities as clients describe them when they add one

VARIABLE scene   \* the entities: id -> entity

commandVars == <<scene>>

States == {"asis", "structure", "design"}
Intents == {"none", "keep", "remove", "replace"}
Locks == {"geometry", "transform", "material", "existence"}
Slated == {"remove", "replace"}

\* place stands for the transform; ref, color and light are keys of the metadata
Entity == [state : States, intent : Intents, locks : SUBSET Locks,
           material : Values \cup {Unset}, color : Values \cup {Unset},
           place : Values \cup {Unset}, ref : Values \cup {Unset},
           light : Values \cup {Unset}]

ASSUME SceneCommandsAssumption == Offered \subseteq Entity

Present == DOMAIN scene
Locked(e, what) == scene[e].locks \cap what # {}

\* add_object: the entity as the client describes it, a design object if the client
\* does not say
AddObject(e, entity, says) ==
  /\ e \notin Present
  /\ scene' = [x \in Present \cup {e} |->
                 IF x \in Present THEN scene[x]
                 ELSE IF says THEN entity ELSE [entity EXCEPT !.state = "design"]]

\* without the look at the intent
SetStateAnyhow(e, state) ==
  /\ e \in Present
  /\ scene' = [scene EXCEPT ![e].state = state]

SetState(e, state) ==
  /\ e \in Present
  /\ state = "structure" => scene[e].intent \notin Slated
  /\ scene' = [scene EXCEPT ![e].state = state]

SetMaterial(e, v) ==
  /\ e \in Present /\ ~Locked(e, {"material"})
  /\ scene' = [scene EXCEPT ![e].material = v]

SetColor(e, v) ==
  /\ e \in Present /\ ~Locked(e, {"material"})
  /\ scene' = [scene EXCEPT ![e].color = v]

MoveObject(e, v) ==
  /\ e \in Present /\ ~Locked(e, {"transform", "geometry"})
  /\ scene' = [scene EXCEPT ![e].place = v]

RemoveObject(e) ==
  /\ e \in Present /\ ~Locked(e, {"existence", "geometry"})
  /\ scene[e].intent # "keep"
  /\ scene' = [x \in Present \ {e} |-> scene[x]]

\* the scene only records which asset stands for the entity
ReplaceFromReference(e, v) ==
  /\ e \in Present /\ ~Locked(e, {"existence", "geometry"})
  /\ scene[e].intent \notin {"keep", "remove"}
  /\ scene' = [scene EXCEPT ![e].ref = v]

SetIntent(e, intent) ==
  /\ e \in Present
  /\ intent \in Slated => scene[e].state # "structure"
  /\ scene' = [scene EXCEPT ![e].intent = intent]

\* locks do not guard locks
SetLocks(e, locks) ==
  /\ e \in Present
  /\ scene' = [scene EXCEPT ![e].locks = locks]

SetLightIntent(e, v) ==
  /\ e \in Present
  /\ scene' = [scene EXCEPT ![e].light = v]

\* the tools of the agent that change the scene (MUTATION_TOOL_NAMES)
AgentChange(e) ==
  \/ e \notin Present /\ \E entity \in Offered, says \in BOOLEAN : AddObject(e, entity, says)
  \/ \E state \in States : SetState(e, state)
  \/ \E v \in Values :
       \/ SetMaterial(e, v) \/ SetColor(e, v) \/ MoveObject(e, v)
       \/ ReplaceFromReference(e, v) \/ SetLightIntent(e, v)
  \/ RemoveObject(e)

\* every operation but the acceptance (_reject_accept_operation)
OwnerChange(e) ==
  \/ AgentChange(e)
  \/ \E intent \in Intents : SetIntent(e, intent)
  \/ \E locks \in SUBSET Locks : SetLocks(e, locks)

\* accept_confirmed_deviation: its own target has to be there, then the embedded
\* command, which may name another, goes through the same rules
AcceptChange(target, e) == target \in Present /\ OwnerChange(e)

CommandsInit == scene = [e \in {} |-> Unset]

CommandsNext ==
  \/ \E e \in Ids : OwnerChange(e)
  \/ \E e \in Ids : AgentChange(e)
  \/ \E target, e \in Ids : AcceptChange(target, e)

CommandsSpec == CommandsInit /\ [][CommandsNext]_commandVars

-----------------------------------------------------------------------------
Slab(s, e) == s[e].state = "structure" /\ s[e].intent \in Slated

Entities == scene \in [Present -> Entity] /\ Present \subseteq Ids

\* Whoever sends a command and through whatever wrapper: what is locked stays as it
\* is, what is locked in its existence or geometry or marked keep stays in the scene
\* and is not replaced, and no change makes an entity that was there a part of the
\* shell slated for removal.  Of the entity a command adds this says nothing.
Guarded ==
  \A e \in Present :
    /\ (Locked(e, {"existence", "geometry"}) \/ scene[e].intent = "keep")
         => e \in DOMAIN scene' /\ scene'[e].ref = scene[e].ref
    /\ e \in DOMAIN scene' =>
         /\ Locked(e, {"material"}) =>
              scene'[e].material = scene[e].material /\ scene'[e].color = scene[e].color
         /\ Locked(e, {"transform", "geometry"}) => scene'[e].place = scene[e].place
         /\ Slab(scene', e) => Slab(scene, e)

LocksHold == [][Guarded]_commandVars
=============================================================================
