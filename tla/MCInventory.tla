----------------------------- MODULE MCInventory -----------------------------
(***************************************************************************)
(* OctoState instantiated with InventoryState and its commands            *)
(* (src/OctoCore/src/State_benchmark.cpp): FundCompanyCommand (17),       *)
(* PurchaseCommand (37), BakeCommand (19) and the empty OtherCommandN.    *)
(* Quantities and prices are doubles in the code and small integers here: *)
(* the ones enumerated are exact in binary floating point, so += and -=   *)
(* on them are exact inverses as they are on integers.  m_inventory is a  *)
(* std::map read through checkInventoryOf(), which answers 0 for a        *)
(* missing item; it is modelled as a total function with 0 for "absent",  *)
(* which is what checkInventoryOf() lets anyone observe.  Transaction     *)
(* dates and descriptions are constants of each command and left out.     *)
(***************************************************************************)
EXTENDS OctoState, Integers, TLC

Items == {"eggs", "flour", "cakes", "loaves"}

EmptyMap == [x \in {} |-> 0]

\* std::map operator[] assignment and erase.
SetKey(f, k, v) == (k :> v) @@ f
EraseKey(f, k) == [x \in DOMAIN f \ {k} |-> f[x]]

\* The commands, as built by their constructors.
FundCompany(amount) == [cid |-> 17, args |-> [amount |-> amount]]

Purchase(item, unitPrice, qty) ==
    [cid |-> 37, args |-> [item |-> item, unit_price |-> unitPrice, qty |-> qty]]

\* BakeCommand's constructor fills items_needed from the recipe of item.
\* Loaves need 1.5 * qty eggs: (3 * qty) \div 2 is that amount for the even
\* quantities the model may bake loaves in (none is enumerated).
ItemsNeeded(item, qty) ==
    CASE item = "cakes"  -> ("eggs" :> 4 * qty) @@ ("flour" :> 6 * qty)
      [] item = "loaves" -> ("eggs" :> (3 * qty) \div 2) @@ ("flour" :> 5 * qty)
      [] OTHER           -> EmptyMap

Bake(item, qty) ==
    [cid |-> 19, args |-> [item |-> item, items_needed |-> ItemsNeeded(item, qty),
                           qty |-> qty]]

\* ADD_EMPTY_COMMAND(n); id 99 stands for a command class nobody registered.
Other(n) == [cid |-> n, args |-> EmptyMap]

InvRegistered == {17, 37, 19, 1, 2, 3, 4, 5, 6, 7, 8, 9, 10, 20, 30, 40, 50, 200}

InvCommands == {FundCompany(10), Purchase("eggs", 2, 4), Purchase("flour", 1, 6),
                Bake("cakes", 1), Other(1), Other(99)}

InvCommandId(c) == c.cid

\* Every command is a Command<InventoryState, id>.
InvAccepts(c) == TRUE

InvDom0 == [inventory |-> [i \in Items |-> 0], ledger |-> EmptyMap]

\* The amounts the enumerated commands can write into the ledger.
LedgerAmounts ==
    {c.args.amount : c \in {x \in InvCommands : x.cid = 17}}
      \cup {-(c.args.qty * c.args.unit_price) : c \in {x \in InvCommands : x.cid = 37}}

InvDomains == [inventory : [Items -> Int],
               ledger : UNION {[D -> LedgerAmounts] : D \in SUBSET (FirstId..IdLimit)}]

InvResults == UNION {[F -> FirstId..IdLimit] : F \in SUBSET {"new_ledger_entry_id"}}

-----------------------------------------------------------------------------
(* if (not result.has_new_ledger_entry_id())                              *)
(*     result.set_new_ledger_entry_id(state->getNextObjectId());          *)
(* getNextObjectId() runs (and moves the counter) before set_ checks that *)
(* the result is mutable.                                                 *)
MintLedgerId(r, m, n) ==
    IF "new_ledger_entry_id" \in DOMAIN r
      THEN [err |-> "none", res |-> r, nid |-> n]
    ELSE LET g == GetNextObjectId(n) IN
         CASE ~g.ok -> [err |-> "StateError", res |-> r, nid |-> g.nid]
           [] ~m    -> [err |-> "CommandResultMisuse", res |-> r, nid |-> g.nid]
           [] OTHER -> [err |-> "none", nid |-> g.nid,
                        res |-> ("new_ledger_entry_id" :> g.id) @@ r]

\* The outcome of a command that raised in MintLedgerId, before any change.
Failed(k, d) == [err |-> k.err, dom |-> d, res |-> k.res, nid |-> k.nid]

FundForward(c, d, r, m, n) ==
    LET k == MintLedgerId(r, m, n) IN
    IF k.err # "none" THEN Failed(k, d)
    ELSE [err |-> "none", res |-> k.res, nid |-> k.nid,
          dom |-> [d EXCEPT !.ledger = SetKey(@, k.res.new_ledger_entry_id,
                                              c.args.amount)]]

FundBackward(c, d, r) ==
    [err |-> "none",
     dom |-> [d EXCEPT !.ledger = EraseKey(@, r.new_ledger_entry_id)]]

\* Mutant of PurchaseForward: the inventory is updated before the id is
\* minted, so an exhausted counter leaves the purchase half done.
PurchaseForwardLateMint(c, d, r, m, n) ==
    LET k == MintLedgerId(r, m, n)
        a == c.args
        d1 == [d EXCEPT !.inventory[a.item] = @ + a.qty]
    IN  IF k.err # "none" THEN Failed(k, d1)
        ELSE [err |-> "none", res |-> k.res, nid |-> k.nid,
              dom |-> [d1 EXCEPT !.ledger = SetKey(@, k.res.new_ledger_entry_id,
                                                   -(a.qty * a.unit_price))]]

PurchaseForward(c, d, r, m, n) ==
    LET k == MintLedgerId(r, m, n)
        a == c.args
    IN  IF k.err # "none" THEN Failed(k, d)
        ELSE [err |-> "none", res |-> k.res, nid |-> k.nid,
              dom |-> [inventory |-> [d.inventory EXCEPT ![a.item] = @ + a.qty],
                       ledger |-> SetKey(d.ledger, k.res.new_ledger_entry_id,
                                         -(a.qty * a.unit_price))]]

PurchaseBackward(c, d, r) ==
    [err |-> "none",
     dom |-> [inventory |-> [d.inventory EXCEPT ![c.args.item] = @ - c.args.qty],
              ledger |-> EraseKey(d.ledger, r.new_ledger_entry_id)]]

\* BakeCommand::run(state, forward): every needed item is taken (given
\* back), then the baked item is added (taken away).
BakeRun(c, d, fwd) ==
    LET a == c.args
        sign == IF fwd THEN 1 ELSE -1
        needed(i) == IF i \in DOMAIN a.items_needed THEN a.items_needed[i] ELSE 0
        made(i) == IF i = a.item THEN a.qty ELSE 0
    IN  [d EXCEPT !.inventory =
           [i \in Items |-> @[i] + sign * (made(i) - needed(i))]]

InvForward(c, d, r, m, n) ==
    CASE c.cid = 17 -> FundForward(c, d, r, m, n)
      [] c.cid = 37 -> PurchaseForward(c, d, r, m, n)
      [] c.cid = 19 -> [err |-> "none", dom |-> BakeRun(c, d, TRUE), res |-> r, nid |-> n]
      [] OTHER      -> [err |-> "none", dom |-> d, res |-> r, nid |-> n]

InvBackward(c, d, r) ==
    CASE c.cid = 17 -> FundBackward(c, d, r)
      [] c.cid = 37 -> PurchaseBackward(c, d, r)
      [] c.cid = 19 -> [err |-> "none", dom |-> BakeRun(c, d, FALSE)]
      [] OTHER      -> [err |-> "none", dom |-> d]
=============================================================================
