------------------------------- MODULE Calls -------------------------------
(***************************************************************************)
(* A call of a function of the file, in an editor: any call of any         *)
(* function that may be defined, one after another.                        *)
(***************************************************************************)
EXTENDS CallSlots

\* The parameters of the function that is called, and the arguments.
VARIABLES fn, call
calls == <<fn, call>>

CallOK == fn \in Seq(Param) /\ WellFormed(fn) /\ call \in Seq(Arg)

CallInit == CallOK
CallNext == CallOK'
CallSpec == CallInit /\ [][CallNext]_calls

-----------------------------------------------------------------------------
\* Where a call and the slots may differ: a name given twice, which **kwargs takes
\* or ** gave before; and after an unpacked list, a simple argument or a keyword of
\* a positional parameter, whose slots the list has taken.
NamesAreTold ==
  ~Has(fn, "kwargs") /\ \A i \in Dicts(call), j \in DOMAIN call : i < j => call[j].kind # "keyword"
SlotsAreFree ==
  \A i \in Lists(call), j \in DOMAIN call : i < j =>
    /\ call[j].kind # "simple"
    /\ call[j].kind = "keyword" => ParamOf(fn, call[j].name) \cap ByPosition(fn) = {}

\* A call has a diagnostic of its arguments if and only if it cannot be bound
\* when it runs.
CallsAreJudged ==
  /\ Accepted(fn, call) /\ NamesAreTold => CanBind(fn, call)
  /\ CanBind(fn, call) /\ SlotsAreFree => Accepted(fn, call)

\* The call with an argument by position more.
Written == Append(call, [kind |-> "simple"])

\* The parameter that signature help points at for an argument, or for the one
\* about to be written, is the one that it is bound to when the call runs.
ActiveParamIsBound ==
  /\ \A i \in DOMAIN call :
       CanBind(fn, call) /\ Lists(call) = {} /\ call[i].kind # "unpacked_dict" =>
         ActiveParam(fn, call, i) = BoundTo(fn, call, i)
  /\ CanBind(fn, Written) /\ Lists(call) = {} =>
       ActiveParam(fn, call, Len(call) + 1) = BoundTo(fn, Written, Len(call) + 1)
=============================================================================
