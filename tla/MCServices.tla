----------------------------- MODULE MCServices -----------------------------
(***************************************************************************)
(* The components that share no state the models keep, side by side: a     *)
(* behavior picks one of them and leaves the others in their initial       *)
(* states, so that one run checks them all at the price of their sum.      *)
(***************************************************************************)
EXTENDS Schema, Workflows, Sessions, SceneCommands, ImageRuntime,
        Catalogue

VARIABLE part

\* described without a material, a colour, a pose: commands set them
Bare == {x \in Entity : {x.material, x.color, x.place, x.ref, x.light} = {Unset}}

\* products with and without a price and a currency
Known == {[price |-> Price, currency |-> "RUB"], [price |-> Nothing, currency |-> "RUB"],
          [price |-> Price, currency |-> Nothing], [price |-> Price, currency |-> Unnamed]}

\* lines with a price of their own, of a product, of a takeoff; some incomplete
Item(kind, amount, currency, quantity, takeoff) ==
  [kind |-> kind, amount |-> amount, currency |-> currency, quantity |-> quantity,
   takeoff |-> takeoff]
Measured(unit, packed, numeric) ==
  [unit |-> unit, price |-> Price, packed |-> packed, numeric |-> numeric]
Some ==
  {Item("manual", Price, Nothing, Count, Nothing),
   Item("manual", Nothing, "USD", Nothing, Nothing),
   Item("material", Nothing, "USD", Count, Measured("each", FALSE, TRUE)),
   Item("material", Nothing, Nothing, Nothing, Measured("m2", TRUE, TRUE))}
    \cup {Item(c, Nothing, currency, n, Nothing) :
            c \in Products, currency \in {Nothing, "USD"}, n \in Counts}

\* one field or several
Changes ==
  {[amount |-> n] : n \in {Nothing, Price}} \cup {[currency |-> c] : c \in {Nothing, "USD"}}
    \cup {[quantity |-> n] : n \in Counts}
    \cup {[takeoff |-> t, currency |-> "RUB"] :
            t \in {Nothing, Measured("m2", FALSE, TRUE), Measured("m2", TRUE, FALSE),
                   [unit |-> "each", price |-> Nothing, packed |-> TRUE, numeric |-> TRUE]}}
    \cup {[amount |-> Price, currency |-> Nothing, quantity |-> Count]}

ServicesInit ==
  /\ part \in {"schema", "workflows", "sessions", "commands", "runtime", "catalogue"}
  /\ SchemaInit /\ WorkflowInit /\ SessionsInit /\ CommandsInit /\ RuntimeInit /\ CatalogueInit

ServicesNext ==
  /\ UNCHANGED part
  /\ \/ /\ part = "schema" /\ SchemaNext
        /\ UNCHANGED <<workflowVars, sessionVars, commandVars, runtimeVars, catalogueVars>>
     \/ /\ part = "workflows" /\ WorkflowNext
        /\ UNCHANGED <<schemaVars, sessionVars, commandVars, runtimeVars, catalogueVars>>
     \/ /\ part = "sessions" /\ SessionsNext
        /\ UNCHANGED <<schemaVars, workflowVars, commandVars, runtimeVars, catalogueVars>>
     \/ /\ part = "commands" /\ CommandsNext
        /\ UNCHANGED <<schemaVars, workflowVars, sessionVars, runtimeVars, catalogueVars>>
     \/ /\ part = "runtime" /\ RuntimeNext
        /\ UNCHANGED <<schemaVars, workflowVars, sessionVars, commandVars, catalogueVars>>
     \/ /\ part = "catalogue" /\ CatalogueNext
        /\ UNCHANGED <<schemaVars, workflowVars, sessionVars, commandVars, runtimeVars>>

serviceVars == <<part, schemaVars, workflowVars, sessionVars, commandVars, runtimeVars,
                 catalogueVars>>

ServicesSpec == ServicesInit /\ [][ServicesNext]_serviceVars /\ RuntimeFairness
=============================================================================
