----------------------------- MODULE WalletForms -----------------------------
(***************************************************************************)
(* What the submit handlers of wallet.js make of a form: trimming, number  *)
(* and date parsing, validation, and the message that is built.  Texts are *)
(* strings of a small set; the constants say what the browser's text       *)
(* functions return for them.                                              *)
(***************************************************************************)
EXTENDS WalletMessages

CONSTANTS
    Trimmed,       \* padded text -> the text without the blanks around it
    Lowered,       \* text with capitals -> the text in lower case
    Decimal,       \* numeric text -> twice the number it stands for
    DayOf,         \* date text -> its day, counted from the epoch
    GridLike,      \* the texts that match the pattern of an address
    MantissaBits,  \* of a JavaScript number (53 in a browser)
    TicksPerSecond,
    DayTicks,      \* 24 hours
    GraceTicks     \* the five minutes that a start in the past is moved ahead

ASSUME FormAssumption ==
    /\ MantissaBits \in Nat \ {0, 1} /\ TicksPerSecond \in Nat \ {0}
    /\ DayTicks \in Nat \ {0} /\ GraceTicks \in Nat

Trim(text) == IF text \in DOMAIN Trimmed THEN Trimmed[text] ELSE text
ToLowerCase(text) == IF text \in DOMAIN Lowered THEN Lowered[text] ELSE text

(***************************************************************************)
(* Number(text), in halves.  The nearest number with MantissaBits          *)
(* significant bits, a tie going to the even neighbour.                    *)
(***************************************************************************)
PowerOfTwo[n \in Nat] == IF n = 0 THEN 1 ELSE 2 * PowerOfTwo[n - 1]
Unit(x) ==
    LET top == PowerOfTwo[MantissaBits]
    IN  CHOOSE u \in {PowerOfTwo[k] : k \in 0 .. MantissaBits} :
            x < top * u /\ (u = 1 \/ x >= (top \div 2) * u)
Nearest(x) ==
    LET u == Unit(x)
        below == x \div u
        rest == x % u
    IN  IF 2 * rest < u \/ (2 * rest = u /\ below % 2 = 0) THEN below * u ELSE (below + 1) * u

IsFinite(text) == text = "" \/ text \in DOMAIN Decimal
Number(text) ==
    IF text = ""
    THEN 0
    ELSE IF Decimal[text] < 0 THEN -Nearest(-Decimal[text]) ELSE Nearest(Decimal[text])
WholeNumber(text) == IsFinite(text) /\ Number(text) % 2 = 0
String(number) == ToString(number \div 2)

\* The whole numbers that Number keeps as they are, in halves.
Exact == {2 * n : n \in 0 .. PowerOfTwo[MantissaBits]}

(***************************************************************************)
(* parseStartDate at time t.                                               *)
(***************************************************************************)
DayStart(date) == DayOf[date] * DayTicks
StartDateValid(date, t) ==
    date # "" => date \in DOMAIN DayOf /\ DayStart(date) >= t - DayTicks
\* A bug: a day that has already begun is taken at its first second.
StartOfDay(date, t) ==
    IF date = "" THEN 0 ELSE DayStart(date) \div TicksPerSecond
ParseStartDate(date, t) ==
    IF date = ""
    THEN 0
    ELSE (IF DayStart(date) < t THEN t + GraceTicks ELSE DayStart(date)) \div TicksPerSecond

IsLikelyGridAddress(text) == Trim(text) \in GridLike

(***************************************************************************)
(* The handlers' checks, for a form read at time t while address is        *)
(* connected.                                                              *)
(***************************************************************************)
CreateSlotValid(in) ==
    /\ Trim(in.publisher) # "" /\ Trim(in.label) # "" /\ Trim(in.rate) # ""
    /\ WholeNumber(Trim(in.rate)) /\ Number(Trim(in.rate)) >= 0

SlotStatus == [activate |-> 1, pause |-> 2, unlist |-> 3]
SlotStatusValid(in) == Trim(in.slot_id) # "" /\ in.action \in DOMAIN SlotStatus

LeaseValid(in, t) ==
    /\ Trim(in.slot_id) # "" /\ Trim(in.target_url) # ""
    /\ WholeNumber(Trim(in.duration_seconds)) /\ Number(Trim(in.duration_seconds)) > 0
    /\ StartDateValid(Trim(in.start_date), t)

\* A bug: the form's wallet is not compared with the connected one.
RegisterUnmatched(in, address) ==
    /\ Trim(in.domain) # "" /\ Trim(in.wallet) # ""
    /\ Trim(in.referrer) = "" \/ IsLikelyGridAddress(Trim(in.referrer))
RegisterValid(in, address) ==
    /\ Trim(in.domain) # "" /\ Trim(in.wallet) # ""
    /\ Trim(in.wallet) = address
    /\ Trim(in.referrer) = "" \/ IsLikelyGridAddress(Trim(in.referrer))

FormValid(in, address, t) ==
    CASE in.kind = "create"   -> CreateSlotValid(in)
      [] in.kind = "status"   -> SlotStatusValid(in)
      [] in.kind = "lease"    -> LeaseValid(in, t)
      [] in.kind = "register" -> RegisterValid(in, address)

(***************************************************************************)
(* The messages.  slots holds the slot defaults of the page's              *)
(* configuration.                                                          *)
(***************************************************************************)
RateDenom(slots) == IF slots.denom = "" THEN "ucongrid" ELSE slots.denom
CreateSlotMessage(in, address, slots) ==
    [publisher |-> address, domain |-> Trim(in.publisher), label |-> Trim(in.label),
     summary |-> Trim(in.summary), category |-> Trim(in.category),
     placement |-> Trim(in.placement), size |-> Trim(in.size),
     rateDenom |-> RateDenom(slots), rateAmount |-> String(Number(Trim(in.rate))),
     unitSeconds |-> slots.unit, minDurationSeconds |-> slots.min,
     maxDurationSeconds |-> slots.max, tags |-> << >>]

SlotStatusMessage(in, address) ==
    [publisher |-> address, slotId |-> Trim(in.slot_id), status |-> SlotStatus[in.action]]

LeaseMessage(in, address, t) ==
    [lessee |-> address, slotId |-> Trim(in.slot_id), targetUrl |-> Trim(in.target_url),
     startsAtUnix |-> ParseStartDate(Trim(in.start_date), t),
     durationSeconds |-> Number(Trim(in.duration_seconds)) \div 2]

RegisterMessage(in, address) ==
    [owner |-> address, domain |-> ToLowerCase(Trim(in.domain)), metadataUri |-> "",
     proof |-> "", verifier |-> "", referrer |-> Trim(in.referrer)]

Message(in, address, t, slots) ==
    CASE in.kind = "create"   -> CreateSlotMessage(in, address, slots)
      [] in.kind = "status"   -> SlotStatusMessage(in, address)
      [] in.kind = "lease"    -> LeaseMessage(in, address, t)
      [] in.kind = "register" -> RegisterMessage(in, address)

\* What signAndBroadcast puts on the wire for a form.
Wire(in, address, t, slots) ==
    LET fields == Codec[in.kind]
    IN  Encode(fields, FromPartial(fields, Message(in, address, t, slots)))
=============================================================================
