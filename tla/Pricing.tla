------------------------------- MODULE Pricing -------------------------------
(* What a call costs. Amounts are whole numbers of the currency's fourth     *)
(* decimal, quantities whole numbers of a grain, the same for all services.  *)
EXTENDS Integers

CONSTANTS Grains,       \* grains in one unit of a service
          ModelRates    \* the prices of models, by service and model

ASSUME PricingAssumption ==
  /\ Grains \in Nat \ {0}
  /\ \A m \in DOMAIN ModelRates :
       ModelRates[m] \in [rate : Nat, per : Nat \ {0}, split : BOOLEAN,
                         input : Nat, output : Nat, increment : Nat]

Flat(rate, per) ==
  [rate |-> rate, per |-> per, split |-> FALSE, input |-> 0, output |-> 0, increment |-> 0]

SERVICES ==
  [stt_streaming |-> Flat(5200, 1),    stt_offline |-> Flat(3900, 1),
   tts_streaming |-> Flat(9100, 1000), tts_offline |-> Flat(7800, 1000),
   translation |-> Flat(75000, 10000), chat_agent |-> Flat(43800, 10000),
   voice_agent_web |-> Flat(40000, 1), voip_call |-> Flat(50000, 1)]

(* Half-up, to the fourth decimal.                                           *)
(* *Mistake:* what is left over is dropped.                                  *)
Truncated(n, d) == n \div d
Quantize(n, d) == (2 * n + d) \div (2 * d)

Up(q, step) == ((q + step - 1) \div step) * step
Billable(service, q) ==
  IF SERVICES[service].increment = 0 THEN q ELSE Up(q, SERVICES[service].increment)

(* A model's price replaces its service's entirely, flat or split.           *)
Overridden(service, model) == <<service, model>> \in DOMAIN ModelRates
RateOf(service, model) ==
  IF Overridden(service, model) THEN ModelRates[<<service, model>>] ELSE SERVICES[service]

(* A call reports one quantity (its input), or what went in and what came    *)
(* out apart - either may be nothing - where they have prices of their own.  *)
Priced(call) == call.apart => RateOf(call.service, call.model).split
InputDue(call) == RateOf(call.service, call.model).input * Billable(call.service, call.input)
OutputDue(call) == RateOf(call.service, call.model).output * Billable(call.service, call.output)
Due(call) ==
  IF call.apart THEN InputDue(call) + OutputDue(call)
  ELSE RateOf(call.service, call.model).rate * Billable(call.service, call.input)
Per(call) == Grains * RateOf(call.service, call.model).per

(* *Mistake:* each side is rounded by itself.                                *)
CostBySides(call) ==
  IF call.apart THEN Quantize(InputDue(call), Per(call)) + Quantize(OutputDue(call), Per(call))
  ELSE Quantize(Due(call), Per(call))
Cost(call) == Quantize(Due(call), Per(call))
=============================================================================
