------------------------------ MODULE PlanChange ------------------------------
(***************************************************************************)
(* changePlan of @mariachi/billing over StripeAdapter.updateSubscription:   *)
(* concurrent callers each read the subscription's items, compute the       *)
(* changes that make the items they want, and send them under their key.    *)
(* A caller tries again, with its key, when the answer is lost.             *)
(*                                                                         *)
(* The provider refuses a change that names an item that is gone, that      *)
(* would leave two items of one price or none at all, or whose key it knows *)
(* with other parameters.                                                   *)
(***************************************************************************)
EXTENDS Naturals, FiniteSets, Functions

CONSTANTS
  Prices,
  Quantities,    \* naturals
  Changers,      \* callers, each with an idempotency key of its own
  MaxTries,      \* bound: attempts of a caller
  Unset          \* undefined: a quantity or a price that was not given

ASSUME PlanAssumption ==
  /\ Unset \notin Prices \cup Quantities /\ MaxTries \in Nat
  /\ IsFiniteSet(Prices) /\ Quantities \subseteq Nat

\* The quantity the provider gives an item that came without one.
DefaultQuantity == 1

VARIABLES
  items,       \* the subscription's items, a set; an older one has a smaller id
  made_ids,    \* how many items it ever had
  patch,       \* [Changers -> what it asks for], set in Init
  read,        \* the items it read
  sent,        \* the changes its key stands for, or Unset
  tries,
  pstep        \* "idle", "update", or how it ended

planVars == <<items, made_ids, patch, read, sent, tries, pstep>>

Item == [id : Nat, price : Prices, quantity : Quantities \cup {DefaultQuantity}]

Given(x) == x # Unset
PricesOf(s) == {item.price : item \in s}
FirstItem(s) == CHOOSE item \in s : \A other \in s : item.id <= other.id

\* What checkPrices lets through: a set of prices, or the first item's new
\* price, quantity or both.
ItemPatches == UNION {[wanted : [ps -> Quantities \cup {Unset}]] : ps \in SUBSET Prices \ {{}}}
FirstPatches ==
  {p \in [price : Prices \cup {Unset}, quantity : Quantities \cup {Unset}] :
     Given(p.price) \/ Given(p.quantity)}
ReplacesSet(p) == "wanted" \in DOMAIN p

PlanInit ==
  /\ \E p \in Prices : items = {[id |-> 1, price |-> p, quantity |-> DefaultQuantity]}
  /\ made_ids = 1
  /\ patch \in [Changers -> ItemPatches \cup FirstPatches]
  /\ read = [c \in Changers |-> {}]
  /\ sent = [c \in Changers |-> Unset]
  /\ tries = [c \in Changers |-> 0]
  /\ pstep = [c \in Changers |-> "idle"]

-----------------------------------------------------------------------------
(* replaceItems and itemChanges: the items to delete, by their ids, those to *)
(* change and those to create.                                             *)

KeptItems(s, wanted) == {item \in s : item.price \in DOMAIN wanted}
Updates(s, wanted) ==
  {[id |-> item.id, price |-> Unset, quantity |-> wanted[item.price]] :
     item \in {k \in KeptItems(s, wanted) : Given(wanted[k.price])}}
Creates(s, wanted) ==
  {[price |-> p, quantity |-> wanted[p]] : p \in DOMAIN wanted \ PricesOf(s)}

\* Mutant: what is not wanted any more stays.
ChangesKeeping(s, wanted) ==
  [deleted |-> {}, updated |-> Updates(s, wanted), created |-> Creates(s, wanted)]

ReplaceItems(s, wanted) ==
  [deleted |-> {item.id : item \in s \ KeptItems(s, wanted)},
   updated |-> Updates(s, wanted),
   created |-> Creates(s, wanted)]

ItemChanges(s, p) ==
  IF ReplacesSet(p) THEN ReplaceItems(s, p.wanted)
  ELSE [deleted |-> {},
        updated |-> {[id |-> FirstItem(s).id, price |-> p.price, quantity |-> p.quantity]},
        created |-> {}]

-----------------------------------------------------------------------------
(* The provider. *)

Or(x, y) == IF Given(x) THEN x ELSE y

Changed(item, changes) ==
  IF \E ch \in changes.updated : ch.id = item.id
  THEN LET ch == CHOOSE x \in changes.updated : x.id = item.id
       IN  [id |-> item.id, price |-> Or(ch.price, item.price), quantity |-> Or(ch.quantity, item.quantity)]
  ELSE item

\* The items that stay, as changed, and the new ones under the ids they get.
Stay(s, changes) == {Changed(item, changes) : item \in {i \in s : i.id \notin changes.deleted}}
New(changes, ids) ==
  {[id |-> ids[ch], price |-> ch.price, quantity |-> Or(ch.quantity, DefaultQuantity)] :
     ch \in changes.created}

NewIds(changes) ==
  Injection(changes.created, (made_ids + 1)..(made_ids + Cardinality(changes.created)))

Accepts(changes, after) ==
  /\ \A id \in changes.deleted \cup {ch.id : ch \in changes.updated} :
       \E item \in items : item.id = id
  /\ after # {}
  /\ \A x, y \in after : x.price = y.price => x = y

-----------------------------------------------------------------------------
(* The callers. *)

Ends(c, step) == pstep' = [pstep EXCEPT ![c] = step]

\* subscriptions.retrieve
RetrieveItems(c) ==
  /\ pstep[c] = "idle" /\ tries[c] < MaxTries
  /\ tries' = [tries EXCEPT ![c] = @ + 1]
  /\ read' = [read EXCEPT ![c] = items]
  /\ Ends(c, "update")
  /\ UNCHANGED <<items, made_ids, patch, sent>>

\* subscriptions.update, which the provider carries out; the answer may be lost.
UpdateApplies(c) ==
  LET changes == ItemChanges(read[c], patch[c])
  IN  /\ pstep[c] = "update" /\ ~Given(sent[c])
      /\ \E ids \in NewIds(changes) :
           items' = Stay(items, changes) \cup New(changes, ids)
      /\ Accepts(changes, items')
      /\ made_ids' = made_ids + Cardinality(changes.created)
      /\ sent' = [sent EXCEPT ![c] = changes]
      /\ Ends(c, "done") \/ Ends(c, "idle")
      /\ UNCHANGED <<patch, read, tries>>

\* The key is known: the first result again, or 'billing/idempotency-conflict'.
UpdateRepeats(c) ==
  /\ pstep[c] = "update" /\ Given(sent[c])
  /\ Ends(c, IF sent[c] = ItemChanges(read[c], patch[c]) THEN "done" ELSE "conflict")
  /\ UNCHANGED <<items, made_ids, patch, read, sent, tries>>

\* Refused, or never arrived.
UpdateFails(c) ==
  /\ pstep[c] = "update" /\ ~Given(sent[c])
  /\ Ends(c, "idle")
  /\ UNCHANGED <<items, made_ids, patch, read, sent, tries>>

PlanNext ==
  \E c \in Changers : RetrieveItems(c) \/ UpdateApplies(c) \/ UpdateRepeats(c) \/ UpdateFails(c)

-----------------------------------------------------------------------------
PlanTypeOK ==
  /\ items \subseteq Item /\ items # {}
  /\ \A x, y \in items : x.id = y.id \/ x.price = y.price => x = y
  /\ tries \in [Changers -> 0..MaxTries]
  /\ pstep \in [Changers -> {"idle", "update", "done", "conflict"}]

\* "Replaces the item set: price_base is kept with the new quantity": exactly the
\* wanted prices, a kept one with its item and, unless another was asked for, its
\* quantity; the other form changes the first item only.
Fulfils(before, p, after) ==
  IF ReplacesSet(p)
  THEN /\ PricesOf(after) = DOMAIN p.wanted
       /\ \A new \in after :
            IF new.price \in PricesOf(before)
            THEN \E old \in before :
                   /\ old.price = new.price /\ old.id = new.id
                   /\ new.quantity = Or(p.wanted[new.price], old.quantity)
            ELSE new.quantity = Or(p.wanted[new.price], DefaultQuantity)
  ELSE LET first == FirstItem(before)
       IN  after = (before \ {first}) \cup
                   {[id |-> first.id, price |-> Or(p.price, first.price),
                     quantity |-> Or(p.quantity, first.quantity)]}

\* A change the provider carries out on the items its caller read makes what was
\* asked for, from any items that earlier changes of several callers led to; and
\* a key's retries change nothing more.  (If the items changed since they were
\* read, a mixture of two callers' wishes can result.)
ChangeMakesWanted ==
  [][\A c \in Changers :
       sent'[c] # sent[c] =>
         /\ sent[c] = Unset
         /\ items = read[c] => Fulfils(items, patch[c], items')]_planVars

PlanSpec == PlanInit /\ [][PlanNext]_planVars
=============================================================================
