-------------------------------- MODULE Money --------------------------------
(***************************************************************************)
(* The price of an archive from the form to the row (apps/web lib/money.ts   *)
(* and create-archive-form.ts, apps/api archives.service.ts).                *)
(*                                                                         *)
(* A decimal string is a number of digits and how many of them are decimals; *)
(* what was typed may also be empty or no number.  The web client counts USDC *)
(* in whole millionths; the API reads a price as a double, the multiple of a  *)
(* power of two that is nearest to it.                                       *)
(***************************************************************************)
EXTENDS Integers, FiniteSetsExt

CONSTANTS
    Precision,      \* 2^53: a double tells so many numbers apart before the gap
                    \* between neighbours doubles
    Finest,         \* 2^1074: so many of the narrowest gaps make a 1
    Spacings,       \* the gaps there are, in narrowest ones: the powers of two
    FixedLimit      \* 10^21: toFixed writes no larger number with decimals

ASSUME DoubleAssumption ==
    /\ Precision \in Nat \ {0} /\ Finest \in Nat \ {0} /\ FixedLimit \in Nat
    /\ Spacings \subseteq Nat \ {0}
    /\ \E spacing \in Spacings : Finest = 128 * spacing
    /\ Precision <= 128 * FixedLimit

USDC_DECIMALS == 6
PRICE_DECIMALS == 2
PLATFORM_FEE_BPS == 500
BPS_DENOMINATOR == 10000

Number(digits, decimals) == [form |-> "number", digits |-> digits, decimals |-> decimals]

Tens(decimals) == <<1, 10, 100, 1000, 10000, 100000, 1000000>>[decimals + 1]

\* What one of the last of so many decimals is worth, in millionths.
Unit(decimals) == Tens(USDC_DECIMALS - decimals)

\* In millionths.
parseUsdc(amount) == amount.digits * Unit(amount.decimals)

\* Two decimals at least, and as many more as are needed.
fractionDigits(units) ==
    CHOOSE d \in 2 .. USDC_DECIMALS :
        /\ units % Unit(d) = 0
        /\ \A e \in 2 .. (d - 1) : units % Unit(e) # 0

formatUsdc(units) ==
    Number(units \div Unit(fractionDigits(units)), fractionDigits(units))

\* What the form shows under the price.
previewEconomics(amount) ==
    LET total == parseUsdc(amount)
        platform == (total * PLATFORM_FEE_BPS) \div BPS_DENOMINATOR
    IN [price |-> formatUsdc(total), platform |-> formatUsdc(platform),
        creator |-> formatUsdc(total - platform)]

\* Variant: as many decimals as USDC has.
validatePriceLong(typed) ==
    CASE typed.form # "number" -> typed.form
      [] typed.decimals > USDC_DECIMALS -> "precision"
      [] typed.digits = 0 -> "notPositive"
      [] OTHER -> "fine"

\* The API keeps two decimals: a price with more is turned down.
validatePriceInput(typed) ==
    CASE typed.form # "number" -> typed.form
      [] typed.decimals > PRICE_DECIMALS -> "precision"
      [] typed.digits = 0 -> "notPositive"
      [] OTHER -> "fine"

\* What is sent is what was shown.
normalizePrice(typed) == formatUsdc(parseUsdc(typed))

\* The whole number nearest to n / d, of two the even one.
Nearest(n, d) ==
    LET low == n \div d
        rest == n % d
    IN IF 2 * rest < d \/ (2 * rest = d /\ low % 2 = 0) THEN low ELSE low + 1

Infinity == -1

\* The double nearest to a decimal, in narrowest gaps: where its neighbours stand as
\* close as Precision allows.
parseFloat(amount) ==
    LET whole == amount.digits * Finest
        wide == {gap \in Spacings : whole < Tens(amount.decimals) * Precision * gap}
    IN IF wide = {}
         THEN Infinity
         ELSE Nearest(whole, Tens(amount.decimals) * Min(wide)) * Min(wide)

\* "1e+21" and the like.
Exponent == [form |-> "exponent", digits |-> 0, decimals |-> 0]

\* toFixed(2): the hundredth nearest to what the double is, of two the greater one.
toFixed(double) ==
    IF double = Infinity \/ double >= FixedLimit * Finest
      THEN Exponent
      ELSE Number((200 * double + Finest) \div (2 * Finest), 2)

\* The price of the row.
frozenPrice(amount) == toFixed(parseFloat(amount))

\* Below 2^46, with the 53 bits of a double, neighbours are less than a hundredth apart.
HoldsCents(amount) == 128 * amount.digits < Tens(amount.decimals) * Precision
=============================================================================
