-------------------------------- MODULE Pricing --------------------------------
(***************************************************************************)
(* PricingService: the authoritative price of one custom item, from tables *)
(* in the code.  Amounts are whole mills, tenths of a cent, so that a      *)
(* multiplier of one decimal place and the rounding to cents are exact.    *)
(* The name of a metal or gemstone stands for every spelling normalizeKey  *)
(* makes of it.                                                            *)
(***************************************************************************)
EXTENDS Integers

categoryBasePrice == [ring |-> 150000, bracelet |-> 220000, necklace |-> 280000]

\* In tenths.
metalMultiplier ==
    [silver |-> 10, white_gold |-> 24, yellow_gold |-> 24, rose_gold |-> 25, platinum |-> 32]

gemstoneFee ==
    [cubic_zirconia |-> 15000, amethyst |-> 35000, topaz |-> 45000, sapphire |-> 180000,
     ruby |-> 220000, emerald |-> 260000, diamond |-> 450000]

engravingBaseFee    == 20000
engravingPerCharFee == 1500

\* What validateCustomOrderRequest lets an engraving have, in bytes.
MaxEngraving == 100

\* Calculate finds every name in its table; an ErrInvalidInput otherwise.  A
\* gemstone is optional; engraving is the text's length in bytes once trimmed,
\* 0 if there is none or only white space, characters its length in characters.
Recognized(s) ==
    /\ s.category \in DOMAIN categoryBasePrice
    /\ s.metal \in DOMAIN metalMultiplier
    /\ s.gemstone \in {"none"} \cup DOMAIN gemstoneFee

\* To the nearest cent, halves up.
round2(m) == ((m + 5) \div 10) * 10

AfterMetal(s) == round2((categoryBasePrice[s.category] * metalMultiplier[s.metal]) \div 10)

GemFee(s) == IF s.gemstone = "none" THEN 0 ELSE gemstoneFee[s.gemstone]

\* mutant: the fee is taken of the text as it was sent.
UntrimmedFee(s) ==
    IF s.engraving = 0 THEN 0
    ELSE round2(engravingBaseFee + s.bytes * engravingPerCharFee)

\* len(text) of a Go string: bytes.
EngravingFee(s) ==
    IF s.engraving = 0 THEN 0
    ELSE round2(engravingBaseFee + s.engraving * engravingPerCharFee)

\* PricingBreakdown.Total.
Total(s) == round2(AfterMetal(s) + GemFee(s) + EngravingFee(s))

MinPrice == 150000
MaxPrice == 1516000

-----------------------------------------------------------------------------

(* The client, which is not in this repository. *)

\* Ten times the running total of a client that adds up the numbers of
\* PricingCatalog, takes engraving_per_char_fee to be what its name and its
\* comment say, a fee per character, and never rounds.
ClientEstimate(s) ==
    categoryBasePrice[s.category] * metalMultiplier[s.metal]
    + 10 * (IF s.gemstone = "none" THEN 0 ELSE gemstoneFee[s.gemstone])
    + 10 * (IF s.characters = 0 THEN 0
            ELSE engravingBaseFee + s.characters * engravingPerCharFee)

-----------------------------------------------------------------------------

Distance(a, b) == IF a < b THEN b - a ELSE a - b

\* More than a cent between the client's estimate and the price: the warning
\* that SubmitCustomOrder logs.
EstimateDiffers(s) == Distance(ClientEstimate(s), 10 * Total(s)) > 100
=============================================================================
