------------------------------- MODULE Prices -------------------------------
(***************************************************************************)
(* core/lib/price_resolution.py: resolve_price, and the items and channel  *)
(* prices of core/models/catalog.py that call it, as functions of what is  *)
(* asked.  An override that fits neither the branch nor the channel asked  *)
(* for is left out; tax_inclusive is compared like the currency, with it.  *)
(***************************************************************************)
EXTENDS Integers, FiniteSets, Null

CONSTANTS
  Amounts,        \* amounts in minor units
  Currencies,
  Versions,
  ZeroNotAllowed, \* the outcome of a ZeroPriceNotAllowedError
  MaxOverrides    \* bound: the overrides of one question

(* None is a null amount, and the outcome of a LookupError.                *)
ASSUME PriceAssumption ==
  /\ None \notin Amounts
  /\ Versions \subseteq Int

Override ==
  [branch : BOOLEAN, channel : BOOLEAN, amount : Amounts \cup {None},
   currency : Currencies, version : Versions, allow_zero : BOOLEAN]

(* A mutant: the branch comes before the channel.                          *)
PriorityRank_MutantBranchFirst(o) ==
  IF o.branch /\ o.channel THEN 0 ELSE IF o.branch THEN 1 ELSE IF o.channel THEN 2 ELSE 3

(* priority_rank: the lowest wins.                                         *)
PriorityRank(o) ==
  IF o.branch /\ o.channel THEN 0 ELSE IF o.channel THEN 1 ELSE IF o.branch THEN 2 ELSE 3

(* The order by (priority_rank, -version), and by position between equals. *)
Precedes(os, i, j) ==
  LET a == PriorityRank(os[i])  b == PriorityRank(os[j]) IN
  \/ a < b
  \/ a = b /\ os[i].version > os[j].version
  \/ a = b /\ os[i].version = os[j].version /\ i <= j

(* min() takes the first.                                                  *)
Best(os, is) == CHOOSE i \in is : \A j \in is : Precedes(os, i, j)

(* resolve_price: for a null, the next best that has an amount, whatever   *)
(* its level.                                                              *)
ResolvePrice(os, currency) ==
  LET applicable == {i \in DOMAIN os : os[i].currency = currency}
      valued     == {i \in applicable : os[i].amount # None}
      first      == Best(os, applicable)
      best       == IF os[first].amount # None THEN first ELSE Best(os, valued)
  IN  IF valued = {} THEN None
      ELSE IF os[best].amount = 0 /\ ~os[best].allow_zero THEN ZeroNotAllowed
      ELSE os[best].amount

(***************************************************************************)
(* Stored items: a base price and the prices of channels.                  *)
(***************************************************************************)
ChannelPrice ==
  [channel : {"asked", "other"}, amount : Amounts, currency : Currencies,
   version : Versions, allow_zero : BOOLEAN]

(* The constraints of the two models.                                      *)
Storable(base, prices) ==
  /\ base >= 0
  /\ \A p \in prices : p.amount >= 0 /\ (p.amount = 0 => p.allow_zero)
  /\ \A p, q \in prices : p.channel = q.channel => p = q

(* A mutant: the permission to be free is not handed on.                   *)
AsOverride_MutantLosesZero(p) ==
  [branch |-> FALSE, channel |-> TRUE, amount |-> p.amount, currency |-> p.currency,
   version |-> p.version, allow_zero |-> FALSE]

AsOverride(p) ==
  [branch |-> FALSE, channel |-> TRUE, amount |-> p.amount, currency |-> p.currency,
   version |-> p.version, allow_zero |-> p.allow_zero]

(* resolve_price of an item, for the channel "asked".                      *)
ItemPrice(base, own, prices, currency) ==
  LET here == {p \in prices : p.channel = "asked"}
      all  == {[branch |-> FALSE, channel |-> FALSE, amount |-> base, currency |-> own,
                version |-> 1, allow_zero |-> FALSE]} \cup {AsOverride(p) : p \in here}
      os   == CHOOSE f \in [1 .. Cardinality(all) -> all] :
                {f[i] : i \in DOMAIN f} = all
  IN  ResolvePrice(os, currency)

VARIABLE asked    \* the question: overrides, or a stored item

PriceInit == asked = None

Ask ==
  /\ asked = None
  /\ \/ \E n \in 0 .. MaxOverrides : \E os \in [1 .. n -> Override] :
          asked' = [kind |-> "overrides", os |-> os]
     \/ \E base \in Amounts, own \in Currencies, p, q \in ChannelPrice :
        \E prices \in {{}, {p, q}} :
          /\ Storable(base, prices)
          /\ asked' = [kind |-> "item", base |-> base, own |-> own, prices |-> prices]

PriceSpec == PriceInit /\ [][Ask]_asked

-----------------------------------------------------------------------------
(* The price is the newest of the most specific level that has one --      *)
(* branch and channel, channel, branch, base -- in the currency asked for, *)
(* and free only with permission (price_resolution.py:4-8, 89).  This is   *)
(* said of overrides of which no level has a null as its newest above an   *)
(* amount: there the documented rule and the code part.  A null inherits   *)
(* from a less specific level (6-7, 44, 93), but the code takes the best   *)
(* other override, which may be an older one of the null's own level (94). *)
MostSpecificNewest ==
  asked # None /\ asked.kind = "overrides" =>
    \A c \in Currencies :
      LET os == asked.os
          level(ch, br) ==
            {i \in DOMAIN os : os[i].channel = ch /\ os[i].branch = br /\ os[i].currency = c}
          levels == <<level(TRUE, TRUE), level(TRUE, FALSE), level(FALSE, TRUE), level(FALSE, FALSE)>>
          newest(l) == {i \in l : \A j \in l : os[i].version >= os[j].version}
          inherits(l) == \A i \in l : os[i].amount = None
          found  == {n \in 1 .. 4 : ~inherits(levels[n])}
          there  == levels[CHOOSE n \in found : \A m \in found : n <= m]
          price  == ResolvePrice(os, c)
      IN  (\A n \in found : \A i \in newest(levels[n]) : os[i].amount # None) =>
            IF found = {} THEN price = None
            ELSE \E i \in newest(there) :
                   IF os[i].amount = 0 /\ ~os[i].allow_zero
                   THEN price = ZeroNotAllowed ELSE price = os[i].amount

(* A channel price that could be stored is the price of its channel, free  *)
(* ones too (catalog.py:83-90, 99-102), and no price of another currency   *)
(* is ever used (price_resolution.py:6).                                   *)
StoredPriceCounts ==
  asked # None /\ asked.kind = "item" =>
    \A c \in Currencies :
      LET price == ItemPrice(asked.base, asked.own, asked.prices, c)
          fits  == {p \in asked.prices : p.channel = "asked" /\ p.currency = c}
      IN  \/ \E p \in fits : price = p.amount
          \/ /\ fits = {}
             /\ price = (IF asked.own # c THEN None
                         ELSE IF asked.base = 0 THEN ZeroNotAllowed ELSE asked.base)
=============================================================================
