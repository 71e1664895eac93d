-------------------------------- MODULE Meter --------------------------------
(***************************************************************************)
(* What a request costs and what a plan allows: meter.ts, plans.ts and     *)
(* video-duration.ts, as operators.  Amounts are integer micro-USD, rates  *)
(* micro-USD per million tokens.                                           *)
(*                                                                         *)
(* Unusable stands for a field that is missing or is not a non-negative    *)
(* integer: the code tells these apart only in what it logs.               *)
(***************************************************************************)
EXTENDS Integers

Unusable == -1
MTok == 1000000  \* exactMicroUsd divides by it
ESTIMATE_BYTES_PER_TOKEN == 4

Least(x, y) == IF x <= y THEN x ELSE y
Greatest(x, y) == IF x <= y THEN y ELSE x
Distance(x, y) == IF x <= y THEN y - x ELSE x - y

NoUsage == [input |-> Unusable, output |-> Unusable]
Usable(pair) == pair.input >= 0 /\ pair.output >= 0

\* Gemini's usageMetadata first, then usage.  Reasoning tokens are added when the
\* output cannot contain them.
extractUsage(usageMetadata, usage) ==
  IF Usable(usageMetadata) THEN [input |-> usageMetadata.input, output |-> usageMetadata.output]
  ELSE IF Usable(usage)
  THEN [input |-> usage.input,
        output |-> IF usage.output < usage.reasoning THEN usage.output + usage.reasoning
                                                     ELSE usage.output]
  ELSE NoUsage

\* The numerator of exactMicroUsd.
exactMicroUsd(usage, price) == usage.input * price.input + usage.output * price.output

\* Mutant: the division rounds down.
priceUsageFloor(usage, price) == exactMicroUsd(usage, price) \div MTok

\* A measured request is rounded up, an estimated one down.
priceUsage(usage, price) == (exactMicroUsd(usage, price) + MTok - 1) \div MTok
priceEstimatedUsage(usage, price) == exactMicroUsd(usage, price) \div MTok

estimateTokensFromBytes(bytes) == IF bytes <= 0 THEN 0 ELSE bytes \div ESTIMATE_BYTES_PER_TOKEN
estimateStreamUsage(promptBytes, outputBytes) ==
  [input |-> estimateTokensFromBytes(promptBytes), output |-> estimateTokensFromBytes(outputBytes)]

\* Nothing is priced with a rate that is not a non-negative integer.
NoPrice == [input |-> Unusable, output |-> Unusable]
meterResponse(usage, price) ==
  IF Usable(usage) /\ Usable(price)
  THEN [metered |-> TRUE, micro_usd |-> priceUsage(usage, price)]
  ELSE [metered |-> FALSE, micro_usd |-> 0]

\* An operator's row overrides the catalog's price whole.  A row that sets only a
\* unit rate carries token rates of zero.
NoOverride == [set |-> FALSE, input |-> 0, output |-> 0, unit |-> Unusable]
resolvePrice(entry, override) ==
  IF ~ override.set THEN entry.price
  ELSE IF Usable(override) THEN [input |-> override.input, output |-> override.output]
  ELSE NoPrice

\* Only a unit rate that is set overrides.
resolveUnitPrice(entry, override) ==
  IF override.set /\ override.unit # Unusable THEN override.unit ELSE entry.unitPrice

priceUnits(units, unitPrice) == Greatest(0, units) * unitPrice

\* Thousands of characters, rounded up, at least one.
kCharacters(chars) == Greatest(1, (chars + 999) \div 1000)

-----------------------------------------------------------------------------
(***************************************************************************)
(* Plans.                                                                  *)
(***************************************************************************)
KNOWN_TIERS == {"standard", "premium"}
parseTiers(raw) == raw \cap KNOWN_TIERS

planFromRow(row) ==
  /\ row.signup_credit >= 0 /\ row.monthly_included >= 0
  /\ row.requests_per_minute > 0 /\ row.max_output_tokens > 0

entitlesTier(plan, tier) == tier \in parseTiers(plan.allowed_tiers)

\* What the request asks for, within the plan and the model.  modelMax is Unusable
\* where the catalog has none, requested where the request has none.
effectiveMaxTokens(requested, planMax, modelMax) ==
  LET ceiling == IF modelMax = Unusable THEN planMax ELSE Least(planMax, modelMax)
  IN IF requested = Unusable THEN ceiling ELSE Greatest(1, Least(requested, ceiling))

-----------------------------------------------------------------------------
(***************************************************************************)
(* The length of a video.  A family takes a range of seconds, or a few     *)
(* lengths, in ascending order in the table.                               *)
(***************************************************************************)
Span(lo, hi, default) == [min |-> lo, max |-> hi, defaultSec |-> default, allowedSec |-> {}]
Choices(lengths, default) == [min |-> 0, max |-> 0, defaultSec |-> default, allowedSec |-> lengths]

videoDurationSpec ==
  [grok      |-> Span(1, 15, 5),       seedance |-> Span(4, 12, 5),
   veo       |-> Choices({4, 6, 8}, 8), hailuo   |-> Choices({6, 10}, 6),
   runway    |-> Span(2, 10, 5),       hh1      |-> Span(3, 15, 5),
   wan       |-> Span(2, 15, 5),       pixv6    |-> Span(1, 15, 5),
   pixverse  |-> Choices({5, 8}, 5),    vidu     |-> Span(1, 16, 5),
   other     |-> Span(1, 15, 5)]

\* The nearest length; the loop keeps the first, so the shorter, of two as near.
Nearest(allowed, base) ==
  CHOOSE a \in allowed : \A b \in allowed :
    \/ Distance(a, base) < Distance(b, base)
    \/ Distance(a, base) = Distance(b, base) /\ a <= b

clampVideoDurationSec(family, requestedSec) ==
  LET spec == videoDurationSpec[family]
      base == IF requestedSec = Unusable THEN spec.defaultSec ELSE requestedSec
  IN IF spec.allowedSec # {} THEN Nearest(spec.allowedSec, base)
     ELSE Least(spec.max, Greatest(spec.min, base))
=============================================================================
