---------------------------- MODULE PaperExecution ----------------------------
(***************************************************************************)
(* PaperExecutionAdapter.simulate_order: the deterministic dry run of an   *)
(* order.  Money is in cents and prices are in 1/10000, the precision the  *)
(* program rounds to.  A tie of round() on a binary float goes either way, *)
(* so a rounding is a set with one or two members and so is the outcome.   *)
(***************************************************************************)
EXTENDS Integers, Sequences

Unquoted == -1   \* best_bid or best_ask is None

SimulatedRejected  == "simulated_rejected"
SimulatedCancelled == "simulated_cancelled"
SimulatedExpired   == "simulated_expired"
SimulatedFilled    == "simulated_filled"

Distance(x, y) == IF x < y THEN y - x ELSE x - y

\* The multiples of 1 that round() may return for num / den, num >= 0.
Nearest(num, den) ==
  {q \in {num \div den, num \div den + 1} : 2 * Distance(num, q * den) <= den}

Clipped(price) == IF price < 0 THEN 0 ELSE IF price > 10000 THEN 10000 ELSE price

Invalid(r) == r.size <= 0 \/ r.price <= 0 \/ r.price > 10000

\* The side of the book the order would take; half a cent below its limit
\* stands in for a bid nobody quoted.
ReferencePrice(r) ==
  IF r.side = "yes" THEN IF r.ask = Unquoted THEN r.price ELSE r.ask
  ELSE IF r.bid = Unquoted THEN Clipped(r.price - 50) ELSE r.bid

\* Stage, slippage in basis points and the sizes that fill.
Scenarios(r) ==
  IF r.cancel
  THEN {[stage |-> SimulatedCancelled, bps |-> 6, sizes |-> <<f>>] :
          f \in Nearest(25 * r.size, 100)}
  ELSE IF r.ttl \/ r.size > 10000
  THEN {[stage |-> SimulatedExpired, bps |-> 8, sizes |-> <<f>>] :
          f \in Nearest(40 * r.size, 100)}
  ELSE IF r.size <= 5000
  THEN {[stage |-> SimulatedFilled, bps |-> 4, sizes |-> <<r.size>>]}
  ELSE {[stage |-> SimulatedFilled, bps |-> 6, sizes |-> <<f, r.size - f>>] :
          f \in Nearest(60 * r.size, 100)}

FillPrices(r, bps) ==
  LET direction == IF r.side = "yes" THEN 1 ELSE -1
  IN  {Clipped(p) : p \in Nearest(ReferencePrice(r) * (10000 + direction * bps), 10000)}

\* Every fragment of one order fills at the same price; empty ones are skipped.
Fragments(r, sizes, price) ==
  LET filledBy(i) == sizes[1] + (IF i = 2 THEN sizes[2] ELSE 0)
  IN  {[index |-> i, size |-> sizes[i], price |-> price, remaining |-> r.size - filledBy(i)] :
         i \in {k \in DOMAIN sizes : sizes[k] > 0}}

\* Mutant: the remainder of an expired or cancelled order is counted as filled.
Filled_All(r, sizes) == r.size

Filled(r, sizes) == IF Len(sizes) = 2 THEN sizes[1] + sizes[2] ELSE sizes[1]

simulate_order(r) ==
  IF Invalid(r)
  THEN {[stage |-> SimulatedRejected, filled |-> 0, fragments |-> {}]}
  ELSE UNION {{[stage |-> s.stage, filled |-> Filled(r, s.sizes),
                fragments |-> Fragments(r, s.sizes, price)] : price \in FillPrices(r, s.bps)} :
              s \in Scenarios(r)}
==============================================================================
