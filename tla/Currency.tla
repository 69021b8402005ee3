------------------------------- MODULE Currency -------------------------------
(***************************************************************************)
(* The currency service: conversions by a table of rates that requests on  *)
(* several threads share without a lock, and that a look-up of an unknown  *)
(* code extends with the rate 0.                                           *)
(*                                                                         *)
(* A double is a count of nanos that is off by a small part of it.  A      *)
(* quotient by the rate 0 is infinity or NaN, whose conversion to a long   *)
(* is undefined: any amount comes of it.  Amounts are small enough for     *)
(* every other conversion to fit a long.                                   *)
(***************************************************************************)
EXTENDS Integers

CONSTANTS
  Calls,         \* threads, which serve one request after another
  Known,         \* the codes the table is made with
  Unknown,       \* other codes that requests name
  Rate,          \* for each known code, its rate: a number of ten-thousandths
  NanosMod,      \* nanos in a unit, a power of ten
  Precision,     \* the doubles of a conversion are off by one part in so many
  Amounts,       \* the amounts to convert: units and nanos
  None

VARIABLES
  currency_conversion,   \* the table: a rate for each code in it
  touching,              \* calls now in the table
  raced,                 \* an insertion met another access: the table is undefined
  call                   \* for each call its step, what it converts, the rates
                         \* it has looked up, and its answer
vars == <<currency_conversion, touching, raced, call>>

Any  == -1               \* the amount that no rule determines
Idle == [step |-> "idle", amount |-> [units |-> 0, nanos |-> 0],
         from |-> None, to |-> None, rate |-> 0, toRate |-> 0, answer |-> Any]

Init ==
  /\ currency_conversion = Rate
  /\ touching = {}
  /\ raced = FALSE
  /\ call = [c \in Calls |-> Idle]

At(c, s) == call[c].step = s

Free(c) == call[c].step \in {"idle", "answered"}

Convert(c) ==
  /\ Free(c)
  /\ \E amount \in Amounts, from, to \in Known \cup Unknown :
       call' = [call EXCEPT ![c] = [Idle EXCEPT !.step = "from", !.amount = amount,
                                                !.from = from, !.to = to]]
  /\ UNCHANGED <<currency_conversion, touching, raced>>

(* It lists the codes in the table.                                        *)
GetSupportedCurrencies(c) ==
  /\ Free(c)
  /\ call' = [call EXCEPT ![c] = [Idle EXCEPT !.step = "list"]]
  /\ UNCHANGED <<currency_conversion, touching, raced>>

Code(c) == IF At(c, "from") THEN call[c].from ELSE call[c].to

(* currency_conversion[code], which inserts a code that is not there, and   *)
(* the loop over the table.                                                *)
Enter(c) ==
  /\ call[c].step \in {"from", "to", "list"} /\ c \notin touching
  /\ touching' = touching \cup {c}
  /\ UNCHANGED <<currency_conversion, raced, call>>

(* An insertion beside another access, on a table without a lock.          *)
Race ==
  \E c \in touching : /\ ~At(c, "list") /\ Code(c) \notin DOMAIN currency_conversion
                       /\ touching # {c}

Undefined == raced \/ Race

(* The table without some codes, and with the one that was looked up.      *)
Found(lost, code) ==
  LET kept == DOMAIN currency_conversion \ lost
  IN  [k \in kept \cup {code} |-> IF k \in kept THEN currency_conversion[k] ELSE 0]

(* What a call finds; a table that is undefined may have lost any codes,   *)
(* the one that it looks for among them.                                   *)
Leave(c) ==
  /\ c \in touching /\ ~At(c, "list")
  /\ touching' = touching \ {c}
  /\ raced' = Undefined
  /\ \E lost \in IF Undefined THEN SUBSET DOMAIN currency_conversion ELSE {{}} :
       currency_conversion' = Found(lost, Code(c))
  /\ LET rate == currency_conversion'[Code(c)] IN
     call' = IF At(c, "from") THEN [call EXCEPT ![c].step = "to", ![c].rate = rate]
             ELSE [call EXCEPT ![c].step = "compute", ![c].toRate = rate]

Listed(c) ==
  /\ c \in touching /\ At(c, "list")
  /\ touching' = touching \ {c}
  /\ raced' = Undefined
  /\ call' = [call EXCEPT ![c] = Idle]
  /\ UNCHANGED currency_conversion

(* It may also kill the process, which starts again with the table it was  *)
(* built with.                                                             *)
Crash ==
  /\ Undefined
  /\ currency_conversion' = Rate
  /\ touching' = {}
  /\ raced' = FALSE
  /\ call' = [c \in Calls |-> Idle]

-----------------------------------------------------------------------------
(* One round of getDouble: the last digit of nanos becomes the first of    *)
(* the decimals.                                                           *)
Shift(nanos, decimal) == decimal \div 10 + (nanos % 10) * (NanosMod \div 10)

(* A mutant: the loop ends before the last digit that is left.             *)
Decimal_ShortByOne[nanos \in 0..(NanosMod - 1)] == [decimal \in 0..NanosMod |->
  IF nanos < 10 THEN decimal
  ELSE Decimal_ShortByOne[nanos \div 10][Shift(nanos, decimal)]]

Decimal[nanos \in 0..(NanosMod - 1)] == [decimal \in 0..NanosMod |->
  IF nanos = 0 THEN decimal
  ELSE Decimal[nanos \div 10][Shift(nanos, decimal)]]

getDouble_ShortByOne(money) == money.units * NanosMod + Decimal_ShortByOne[money.nanos][0]

getDouble(money) == money.units * NanosMod + Decimal[money.nanos][0]

(* The error of some thirty roundings, and of the cut to whole nanos.      *)
Slack(value) == 1 + value \div Precision

(* What comes of so many nanos in a double.                                *)
getUnitsAndNanos(value) ==
  {a \in (value - Slack(value)) .. (value + Slack(value)) : a >= 0}

Answers(money, rate, toRate) ==
  IF rate = 0 THEN {Any}
  ELSE IF getDouble(money) * toRate = 0 THEN {0}
  ELSE getUnitsAndNanos((getDouble(money) * toRate) \div rate)

Answer(c) ==
  /\ At(c, "compute")
  /\ \E a \in Answers(call[c].amount, call[c].rate, call[c].toRate) :
       call' = [call EXCEPT ![c].step = "answered", ![c].answer = a]
  /\ UNCHANGED <<currency_conversion, touching, raced>>

Next == \/ \E c \in Calls : \/ Convert(c) \/ GetSupportedCurrencies(c)
                            \/ Enter(c) \/ Leave(c) \/ Listed(c) \/ Answer(c)
        \/ Crash

Spec == Init /\ [][Next]_vars

-----------------------------------------------------------------------------
Exact(money, from, to) ==
  ((money.units * NanosMod + money.nanos) * Rate[to]) \div Rate[from]

(* The exact amount but for the error of doubles, if the first of the nine *)
(* decimals is not zero, or all are; otherwise it may be too high, since   *)
(* zeros before the first other digit are dropped: 0.08 is taken for 0.8.  *)
IsClose(money, from, to, answer) ==
  LET exact == Exact(money, from, to)
  IN  /\ answer >= exact - Slack(exact)
      /\ money.nanos = 0 \/ money.nanos * 10 >= NanosMod => answer <= exact + Slack(exact)

(* Whatever codes other calls have inserted with the rate 0, before or     *)
(* while it looked up its own (server.cpp:195-200), a conversion between   *)
(* known codes is close.  Once an insertion has met another access, and    *)
(* until the process starts again, it may miss a rate; but what it answers *)
(* then is 0 or undefined, never another amount.                           *)
ConversionIsClose ==
  \A c \in Calls :
    At(c, "answered") /\ {call[c].from, call[c].to} \subseteq Known =>
      \/ IsClose(call[c].amount, call[c].from, call[c].to, call[c].answer)
      \/ raced /\ call[c].answer \in {0, Any}

-----------------------------------------------------------------------------
(* What the proofs add.  Amounts are not negative, and the nanos in a unit *)
(* are a power of ten up to that of the code, 10^9.                        *)
Powers == {1, 10, 100, 1000, 10000, 100000, 1000000, 10000000, 100000000, 1000000000}

Money == [units : Nat, nanos : 0..(NanosMod - 1)]

Sound ==
  /\ NanosMod \in Powers
  /\ Precision \in Nat \ {0}
  /\ Amounts \subseteq Money
  /\ Known \cap Unknown = {}
  /\ Rate \in [Known -> Nat \ {0}]

(* The least power of ten that nanos are less than, and what the loop      *)
(* makes of them: as many units of what is left of NanosMod.               *)
Scale(nanos) == CHOOSE p \in Powers : nanos < p /\ (p = 1 \/ p <= 10 * nanos)

Closed(nanos, decimal) ==
  decimal \div Scale(nanos) + nanos * (NanosMod \div Scale(nanos))

TypeOK ==
  /\ touching \subseteq Calls
  /\ call \in [Calls -> [step : {"idle", "from", "to", "list", "compute", "answered"},
                         amount : Money, from : Known \cup Unknown \cup {None},
                         to : Known \cup Unknown \cup {None},
                         rate : Nat, toRate : Nat, answer : Int]]

Named ==
  \A c \in Calls :
    /\ ~At(c, "idle") /\ ~At(c, "list") => {call[c].from, call[c].to} \subseteq Known \cup Unknown
    /\ c \in touching => call[c].step \in {"from", "to", "list"}

(* A rate that is, or was, found for a known code is its own, or 0 if the  *)
(* table is undefined.                                                     *)
IsRateOf(rate, code) ==
  code \in Known => rate = Rate[code] \/ (raced /\ rate = 0)

RatesAreTheirs ==
  /\ \A code \in DOMAIN currency_conversion :
       currency_conversion[code] \in Nat /\ IsRateOf(currency_conversion[code], code)
  /\ ~raced => Known \subseteq DOMAIN currency_conversion
  /\ \A c \in Calls :
       /\ call[c].step \in {"to", "compute"} => IsRateOf(call[c].rate, call[c].from)
       /\ At(c, "compute") => IsRateOf(call[c].toRate, call[c].to)

IInv == TypeOK /\ Named /\ RatesAreTheirs /\ ConversionIsClose
=============================================================================
