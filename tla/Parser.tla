------------------------------- MODULE Parser -------------------------------
(***************************************************************************)
(* The parser (starpls_parser) and the builder of the tree                 *)
(* (starpls_syntax/src/parser.rs).  The rules of Grammar push events on a  *)
(* list; the list becomes the steps of a tree; the builder puts the tokens *)
(* that no rule sees, the trivia, between them.                            *)
(***************************************************************************)
EXTENDS Grammar, Integers, FiniteSets, SequencesExt

-----------------------------------------------------------------------------
(***************************************************************************)
(* A Parser: its place, its events, the Markers not completed yet, where   *)
(* the CompletedMarker that a rule returned starts, whether it returned    *)
(* one.  hung is a loop that consumes nothing, panic an assertion.         *)
(***************************************************************************)
NewParser(tokens) ==
  [tokens |-> tokens, pos |-> 1, events |-> <<>>, open |-> <<>>, last |-> 0, some |-> TRUE,
   work |-> <<>>, hung |-> FALSE, panic |-> FALSE]

Event(kind)     == [event |-> kind]
StartEvent(kind) == [event |-> "start", kind |-> kind, forward_parent |-> 0]
TokenEvent(kind) == [event |-> "token", kind |-> kind]

Nth(p, n)       == IF p.pos + n <= Len(p.tokens) THEN p.tokens[p.pos + n] ELSE "EOF"
Ahead(p, ahead) == \E kinds \in ahead : \A k \in DOMAIN kinds : Nth(p, k - 1) \in kinds[k]
Push(p, event)  == [p EXCEPT !.events = Append(@, event)]

BumpToken(p) ==
  IF Nth(p, 0) = "EOF" THEN p ELSE [Push(p, TokenEvent(Nth(p, 0))) EXCEPT !.pos = @ + 1]

StartNode(p) == [Push(p, Event("tombstone")) EXCEPT !.open = Append(@, Len(p.events) + 1)]

CompleteNode(p, kind) ==
  LET pos == Last(p.open)
  IN  [Push(p, Event("finish")) EXCEPT !.events[pos] = StartEvent(kind), !.open = Front(@),
                                       !.last = pos, !.some = TRUE]

AbandonNode(p) ==
  [p EXCEPT !.open   = Front(@),
            !.events = IF Last(p.open) = Len(p.events) THEN Front(@) ELSE @]

\* The node becomes the first child of one that is started only now.
PrecedeNode(p) ==
  [StartNode(p) EXCEPT !.events[p.last].forward_parent = Len(p.events) + 1]

\* error_recover_until
RECURSIVE BumpUntil(_, _)
BumpUntil(p, stop) ==
  IF Nth(p, 0) \in stop \cup {"EOF"} THEN p ELSE BumpUntil(BumpToken(p), stop)
RecoverUntil(p, stop) ==
  LET q == Push(p, Event("error"))
  IN  IF Nth(p, 0) \in stop \cup {"EOF"} THEN q
      ELSE CompleteNode(BumpUntil(StartNode(q), stop), "ERROR")

(***************************************************************************)
(* Executing the rules.  work is what is left to do: the code of each rule *)
(* that was called and of each block in it, the innermost last.            *)
(***************************************************************************)
Enter(p, code, is_rule) == [p EXCEPT !.work = Append(@, [code |-> code, is_rule |-> is_rule])]
Leave(p) ==
  [p EXCEPT !.work = SubSeq(@, 1, SelectLastInSeq(@, LAMBDA frame : frame.is_rule) - 1)]
Panic(p) == [p EXCEPT !.panic = TRUE]

Do(p, i) ==
  CASE i.do = "start"       -> StartNode(p)
    [] i.do = "complete"    -> CompleteNode(p, i.kind)
    [] i.do = "abandon"     -> AbandonNode(p)
    [] i.do = "precede"     -> PrecedeNode(p)
    [] i.do = "bump"        -> IF Nth(p, 0) = i.kind THEN BumpToken(p) ELSE Panic(p)
    [] i.do = "bump_any"    -> BumpToken(p)
    [] i.do = "error"       -> Push(p, Event("error"))
    [] i.do = "error_recover_until" -> RecoverUntil(p, i.stop)
    [] i.do = "call"        -> Enter(p, Rules[i.rule], TRUE)
    [] i.do = "none"        -> Leave([p EXCEPT !.some = FALSE])
    [] i.do = "return"      -> Leave(p)
    [] i.do = "unreachable" -> Panic(p)
    [] i.do = "when"        -> Enter(p, IF Ahead(p, i.ahead) THEN i.then ELSE i.otherwise, FALSE)
    [] i.do = "when_none"   -> IF p.some THEN p ELSE Enter(p, i.then, FALSE)
    [] i.do = "while"       -> IF Ahead(p, i.ahead)
                               THEN Enter(p, i.body \o << [i EXCEPT !.do = "again", !.from = p.pos] >>, FALSE)
                               ELSE p
    [] i.do = "again"       -> IF p.pos = i.from THEN [p EXCEPT !.hung = TRUE]
                               ELSE [p EXCEPT !.work[Len(p.work)].code = << [i EXCEPT !.do = "while"] >>]

Stopped(p) == p.work = <<>> \/ p.panic \/ p.hung

Step(p) ==
  LET code == Last(p.work).code
  IN  IF code = <<>> THEN [p EXCEPT !.work = Front(@)]
      ELSE Do([p EXCEPT !.work[Len(p.work)].code = Tail(code)], Head(code))

\* Up to 2^n steps.
RECURSIVE Run(_, _)
Run(p, n) == IF Stopped(p) THEN p ELSE IF n = 0 THEN Step(p) ELSE Run(Run(p, n - 1), n - 1)

MaxSteps == 14

\* parse and parse_type_list
Parse(tokens)         == Run(Enter(NewParser(tokens), module, TRUE), MaxSteps)
ParseTypeList(tokens) == Run(Enter(NewParser(tokens), type_comment_body, TRUE), MaxSteps)

(***************************************************************************)
(* postprocess_step_events: a node is started where its first child is,    *)
(* after those it is a child of, and not where its own event is.           *)
(***************************************************************************)
RECURSIVE Starts(_, _)
Starts(events, i) ==
  (IF events[i].forward_parent = 0 THEN <<>> ELSE Starts(events, events[i].forward_parent))
    \o << [step |-> "start", kind |-> events[i].kind] >>

Steps(events) ==
  LET Started  == {i \in DOMAIN events : events[i].event = "start"}
      Replaced == {events[i].forward_parent : i \in Started}
      Of(i)    == CASE i \in Replaced \/ events[i].event = "tombstone" -> <<>>
                    [] i \in Started \ Replaced -> Starts(events, i)
                    [] events[i].event = "token" -> << [step |-> "token", kind |-> events[i].kind] >>
                    [] events[i].event \in {"finish", "error"} -> << [step |-> events[i].event] >>
  IN  FlattenSeq([i \in DOMAIN events |-> Of(i)])

-----------------------------------------------------------------------------
(***************************************************************************)
(* build_with_trivia.  The text is its tokens, trivia included: kind, text *)
(* where it matters, and for a comment that starts with "# type: " what    *)
(* follows.  A finish waits for the next start or token, so that trivia go *)
(* to the inner node.                                                      *)
(***************************************************************************)
Trivia       == {"WHITESPACE", "COMMENT"}
Kinds(text)  == [i \in DOMAIN text |-> text[i].kind]
ToInput(text) == SelectSeq(Kinds(text), LAMBDA kind : kind \notin Trivia)

NewBuilder(text, steps) == [text |-> text, steps |-> steps, state |-> "init", pos |-> 1, out |-> <<>>]

Sink(b, step)     == [b EXCEPT !.out = Append(@, step)]
FinishPending(b)  == IF b.state = "pending_finish" THEN Sink(b, [step |-> "finish"]) ELSE b
DoToken(b, kind)  ==
  [Sink(b, [step |-> "token", kind |-> kind, pos |-> b.pos, text |-> b.text[b.pos].text]) EXCEPT !.pos = @ + 1]

\* Mutant: one token of trivia is eaten.
EatOneTrivia(b) ==
  IF b.pos <= Len(b.text) /\ b.text[b.pos].kind \in Trivia THEN DoToken(b, b.text[b.pos].kind) ELSE b

RECURSIVE EatTrivia(_)
EatTrivia(b) ==
  IF b.pos <= Len(b.text) /\ b.text[b.pos].kind \in Trivia
  THEN EatTrivia(DoToken(b, b.text[b.pos].kind)) ELSE b

Build(b, step) ==
  CASE step.step = "start"  ->
         [Sink(IF b.state = "init" THEN b ELSE EatTrivia(FinishPending(b)), step) EXCEPT !.state = "normal"]
    [] step.step = "finish" -> [FinishPending(b) EXCEPT !.state = "pending_finish"]
    [] step.step = "token"  -> [DoToken(EatTrivia(FinishPending(b)), step.kind) EXCEPT !.state = "normal"]
    [] step.step = "error"  -> Sink(b, [step |-> "error", pos |-> b.pos])

RECURSIVE BuildAll(_)
BuildAll(b) == IF b.steps = <<>> THEN b ELSE BuildAll(Build([b EXCEPT !.steps = Tail(@)], Head(b.steps)))

BuildWithTrivia(text, events) ==
  Sink(EatTrivia(BuildAll(NewBuilder(text, Steps(events)))), [step |-> "finish"]).out

(***************************************************************************)
(* parse_module: a type comment becomes a node of its own.                 *)
(***************************************************************************)
BuildTypeComment(body) ==
  << [step |-> "start", kind |-> "TYPE_COMMENT"],
     [step |-> "token", kind |-> "TYPE_COMMENT_PREFIX", pos |-> 0, text |-> ""] >>
  \o BuildWithTrivia(body, ParseTypeList(ToInput(body)).events)
  \o << [step |-> "finish"] >>

ParseModule(text) ==
  LET built == BuildWithTrivia(text, Parse(ToInput(text)).events)
      Typed(step) == step.step = "token" /\ step.kind = "COMMENT" /\ text[step.pos].body # <<>>
  IN  FlattenSeq([i \in DOMAIN built |->
        IF Typed(built[i]) THEN BuildTypeComment(text[built[i].pos].body) ELSE <<built[i]>>])
=============================================================================
