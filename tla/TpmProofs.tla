----------------------------- MODULE TpmProofs -----------------------------
(***************************************************************************)
(* Proofs about the TPM calls for any contexts, handles, PCRs, operations  *)
(* and number of failing commands: no path through a call forgets a handle *)
(* (TpmInv), and what was sealed comes back when it should and only then   *)
(* (SealInv).                                                              *)
(***************************************************************************)
EXTENDS Tpm, TLAPS

USE SMTT(30), ZenonT(30)

Fields == {"open", "pc", "op", "index", "blob", "transient", "session", "item", "digest",
           "asked", "todo", "result", "harmed", "excused"}

(* The handles a call has yet to flush: the ones its local variables name  *)
(* at this point, and the ones it is flushing.                             *)
Named(x) ==
  CASE x.pc = "evict" -> {x.transient}
    [] x.pc \in {"trial_policy", "digest"} -> {x.session}
    [] x.pc = "session" -> {x.item}
    [] x.pc = "policy" -> {x.session, x.item}
    [] x.pc = "unseal" -> IF x.op = "unseal" THEN {x.item} ELSE {x.session, x.item}
    [] OTHER -> {}
Flushing(x) == {x.todo[k] : k \in 1..Len(x.todo)}
Held(x) == Named(x) \cup Flushing(x)

Owned(c) == {h \in Handles : live[h].owner = c}

(* A context record has its fields; the handles it is flushing are         *)
(* distinct, and none of them is one its local variables name.             *)
Shape(x) ==
  /\ DOMAIN x = Fields /\ x.todo \in Seq(Handles)
  /\ Named(x) \cap Flushing(x) = {}
  /\ \A k, l \in 1..Len(x.todo) : x.todo[k] = x.todo[l] => k = l
  /\ (x.pc = "policy" \/ (x.pc = "unseal" /\ x.op # "unseal")) => x.session # x.item
  /\ x.pc \in {"session", "policy"} => x.op # "unseal"

(* Every handle a context holds is a live one of its own, and unless it    *)
(* was harmed these are all.                                               *)
Covered(c) ==
  /\ Shape(ctx[c])
  /\ Held(ctx[c]) \subseteq Owned(c)
  /\ ~ctx[c].harmed => Owned(c) \subseteq Held(ctx[c])
  /\ ~ctx[c].open => ctx[c] = Closed

LiveShape == live = [h \in Handles |-> live[h]]
             /\ \A h \in Handles : DOMAIN live[h] = {"owner", "policy", "at"}

TpmInv ==
  /\ ctx = [c \in Contexts |-> ctx[c]]
  /\ LiveShape
  /\ \A c \in Contexts : Covered(c)

---------------------------------------------------------------------------
(* The results of a call that has not returned, and of one that failed. *)
LEMMA Results == Len(<<>>) = 0 /\ Len(<<"failed">>) = 1 /\ <<>> # <<"failed">>
<1>1. Len(<<>>) = 0 /\ Len(<<"failed">>) = 1  BY Zenon
<1> QED  BY <1>1, Zenon

(* A step of context c disturbs no other context. *)
LEMMA OthersKept ==
  ASSUME TpmInv, NEW c \in Contexts, NEW y, ctx' = [ctx EXCEPT ![c] = y], LiveShape',
         \A h \in Handles : \A d \in Contexts \ {c} : live'[h].owner = d <=> live[h].owner = d,
         Covered(c)'
  PROVE  TpmInv'
<1>1. ASSUME NEW d \in Contexts \ {c} PROVE Covered(d)'
  <2>1. ctx'[d] = ctx[d]  BY Zenon DEF TpmInv
  <2>2. Owned(d)' = Owned(d)  BY Zenon DEF Owned
  <2>3. Covered(d)  BY Zenon DEF TpmInv
  <2> QED  BY <2>1, <2>2, <2>3, Zenon DEF Covered
<1>2. ctx' = [d \in Contexts |-> ctx'[d]]  BY Zenon DEF TpmInv
<1> QED  BY <1>1, <1>2, Zenon DEF TpmInv

(* A step that keeps every handle's owner and the handles held. *)
LEMMA HoldsTheSame ==
  ASSUME TpmInv, NEW c \in Contexts, NEW y, ctx' = [ctx EXCEPT ![c] = y], LiveShape',
         \A h \in Handles : live'[h].owner = live[h].owner,
         Shape(y), Held(y) = Held(ctx[c]), ctx[c].harmed => y.harmed, y.open
  PROVE  TpmInv'
<1>1. ctx'[c] = y  BY Zenon DEF TpmInv
<1>2. Owned(c)' = Owned(c)  BY Zenon DEF Owned
<1>3. Covered(c)  BY Zenon DEF TpmInv
<1>4. Covered(c)'  BY <1>1, <1>2, <1>3, Zenon DEF Covered
<1> QED  BY <1>4, OthersKept, Zenon

(* A step that makes a handle, which the context holds or, its answer      *)
(* lost, does not.                                                         *)
LEMMA HoldsOneMore ==
  ASSUME TpmInv, NEW c \in Contexts, NEW y, ctx' = [ctx EXCEPT ![c] = y],
         NEW h \in Handles, NEW p, NEW q, live[h].owner = None,
         live' = [live EXCEPT ![h] = [owner |-> c, policy |-> p, at |-> q]],
         Shape(y), y.open,
         \/ Held(y) = Held(ctx[c]) \cup {h} /\ (ctx[c].harmed => y.harmed)
         \/ Held(y) = Held(ctx[c]) /\ y.harmed
  PROVE  TpmInv'
<1>1. ctx'[c] = y  BY Zenon DEF TpmInv
<1>2. LiveShape'  BY Zenon DEF TpmInv, LiveShape
<1>3. /\ live'[h].owner = c
      /\ \A g \in Handles \ {h} : live'[g] = live[g]
  BY Zenon DEF TpmInv, LiveShape
<1>4. Owned(c)' = Owned(c) \cup {h}  BY <1>3 DEF Owned
<1>5. Covered(c)  BY Zenon DEF TpmInv
<1>6. Covered(c)'  BY <1>1, <1>4, <1>5, Zenon DEF Covered
<1>7. \A g \in Handles : \A d \in Contexts \ {c} : live'[g].owner = d <=> live[g].owner = d
  BY <1>3, NoneAssumption, Zenon
<1> QED  BY <1>2, <1>6, <1>7, OthersKept, Zenon

---------------------------------------------------------------------------
(* A context between commands. *)
LEMMA Ready ==
  ASSUME TpmInv, NEW c \in Contexts, NEW pc, Doing(c, pc)
  PROVE  /\ DOMAIN ctx[c] = Fields /\ ctx[c].pc = pc /\ ctx[c].todo = <<>> /\ ctx[c].open
         /\ Flushing(ctx[c]) = {} /\ Held(ctx[c]) = Named(ctx[c])
         /\ Named(ctx[c]) \subseteq Handles /\ Shape(ctx[c]) /\ LiveShape
<1>1. Covered(c) /\ LiveShape  BY Zenon DEF TpmInv
<1>2. Flushing(ctx[c]) = {}  BY DEF Doing, Flushing
<1> QED  BY <1>1, <1>2, Zenon DEF Covered, Shape, Held, Doing, Owned

(* What a call that returns holds is what it flushes. *)
LEMMA Returned ==
  ASSUME NEW x, DOMAIN x = Fields, NEW result, NEW flush \in Seq(Handles),
         \A k, l \in 1..Len(flush) : flush[k] = flush[l] => k = l
  PROVE  LET y == Return(x, result, flush)
         IN  /\ Shape(y) /\ Held(y) = {flush[k] : k \in 1..Len(flush)}
             /\ y.open = x.open /\ y.harmed = x.harmed
<1> DEFINE y == Return(x, result, flush)
<1>1. /\ DOMAIN y = Fields /\ y.pc = "idle" /\ y.todo = flush
      /\ y.open = x.open /\ y.harmed = x.harmed
  BY Zenon DEF Return, Fields
<1> USE <1>1
<1> HIDE DEF y
<1>2. Named(y) = {}  BY Zenon DEF Named
<1>3. Flushing(y) = {flush[k] : k \in 1..Len(flush)}  BY Zenon DEF Flushing
<1>4. Shape(y)  BY <1>2, Zenon DEF Shape
<1>5. Held(y) = {flush[k] : k \in 1..Len(flush)}  BY <1>2, <1>3, Zenon DEF Held
<1> QED  BY <1>4, <1>5, Zenon DEF y

(* An excuse is only history. *)
LEMMA Excused ==
  ASSUME NEW x, DOMAIN x = Fields
  PROVE  /\ Shape(x) => Shape(Excuse(x)) /\ Shape(Harm(x))
         /\ Held(Excuse(x)) = Held(x) /\ Held(Harm(x)) = Held(x)
         /\ Excuse(x).open = x.open /\ Harm(x).open = x.open
         /\ Excuse(x).harmed = x.harmed /\ Harm(x).harmed
<1> DEFINE y == Excuse(x)
           z == Harm(x)
<1>1. /\ DOMAIN y = Fields /\ y.pc = x.pc /\ y.op = x.op /\ y.todo = x.todo /\ y.open = x.open
      /\ y.transient = x.transient /\ y.session = x.session /\ y.item = x.item
      /\ y.harmed = x.harmed
  BY Zenon DEF Excuse, Fields
<1> USE <1>1
<1>2. /\ DOMAIN z = Fields /\ z.pc = x.pc /\ z.op = x.op /\ z.todo = x.todo /\ z.open = x.open
      /\ z.transient = x.transient /\ z.session = x.session /\ z.item = x.item
      /\ z.harmed
  BY Zenon DEF Harm, Fields
<1> USE <1>2
<1> HIDE DEF y, z
<1>3. Named(y) = Named(x) /\ Named(z) = Named(x)  BY Zenon DEF Named
<1>4. Flushing(y) = Flushing(x) /\ Flushing(z) = Flushing(x)  BY Zenon DEF Flushing
<1>5. Held(y) = Held(x) /\ Held(z) = Held(x)  BY <1>3, <1>4, Zenon DEF Held
<1>6. Shape(x) => Shape(y) /\ Shape(z)  BY <1>3, <1>4 DEF Shape
<1> QED  BY <1>5, <1>6, Zenon DEF y, z

(* A context that may follow: it holds what it held. *)
Follows(c, y) ==
  Shape(y) /\ Held(y) = Held(ctx[c]) /\ (ctx[c].harmed => y.harmed) /\ y.open

LEMMA RefusedStep ==
  ASSUME TpmInv, NEW c \in Contexts, NEW ok, NEW bad, Refused(c, ok, bad), Follows(c, bad)
  PROVE  TpmInv'
<1>1. LiveShape  BY Zenon DEF TpmInv
<1>2. LiveShape' /\ \A h \in Handles : live'[h].owner = live[h].owner
  BY <1>1, Zenon DEF Refused, LiveShape
<1> DEFINE y == IF ok THEN Excuse(bad) ELSE bad
<1>3. DOMAIN bad = Fields  BY Zenon DEF Follows, Shape
<1>4. Follows(c, y)  BY <1>3, Excused, Zenon DEF Follows
<1>5. ctx' = [ctx EXCEPT ![c] = y]  BY Zenon DEF Refused
<1> HIDE DEF y
<1> QED  BY <1>2, <1>4, <1>5, HoldsTheSame, Zenon DEF Follows

LEMMA AsksStep ==
  ASSUME TpmInv, NEW c \in Contexts, NEW ok, NEW good, NEW bad, Asks(c, ok, good, bad),
         ok => Follows(c, good), Follows(c, bad)
  PROVE  TpmInv'
<1>1. LiveShape  BY Zenon DEF TpmInv
<1>2. CASE Succeeds(c, ok, good) /\ UNCHANGED <<persistent, live>>
  <2>1. LiveShape' /\ \A h \in Handles : live'[h].owner = live[h].owner
    BY <1>1, <1>2, Zenon DEF LiveShape
  <2> QED  BY <1>2, <2>1, HoldsTheSame, Zenon DEF Succeeds, Follows
<1>3. CASE Refused(c, ok, bad)  BY <1>3, RefusedStep, Zenon
<1> QED  BY <1>2, <1>3, Zenon DEF Asks

(* A command that makes a handle, with good the context it leads to.       *)
LEMMA CreatesStep ==
  ASSUME TpmInv, NEW c \in Contexts, NEW policy, NEW good, NEW bad, Follows(c, bad),
         (Fresh \in Handles /\ live[Fresh].owner = None) =>
            /\ Shape(good) /\ good.open /\ Held(good) = Held(ctx[c]) \cup {Fresh}
            /\ ctx[c].harmed => good.harmed,
         \/ /\ Succeeds(c, Room # {}, good)
            /\ live' = [live EXCEPT ![Fresh] = [owner |-> c, policy |-> policy, at |-> None]]
         \/ Refused(c, Room # {}, IF Room # {} THEN bad ELSE Excuse(bad))
         \/ /\ AnswerLost(c, Room # {}, Harm(bad))
            /\ live' = [live EXCEPT ![Fresh] = [owner |-> c, policy |-> policy, at |-> None]]
  PROVE  TpmInv'
<1>1. Room # {} => Fresh \in Handles /\ live[Fresh].owner = None  BY Zenon DEF Room, Fresh
<1>2. DOMAIN bad = Fields  BY Zenon DEF Follows, Shape
<1>3. CASE /\ Succeeds(c, Room # {}, good)
           /\ live' = [live EXCEPT ![Fresh] = [owner |-> c, policy |-> policy, at |-> None]]
  BY <1>1, <1>3, HoldsOneMore, Zenon DEF Succeeds
<1>4. CASE Refused(c, Room # {}, IF Room # {} THEN bad ELSE Excuse(bad))
  <2>1. Follows(c, IF Room # {} THEN bad ELSE Excuse(bad))
    BY <1>2, Excused, Zenon DEF Follows
  <2> QED  BY <1>4, <2>1, RefusedStep, Zenon
<1>5. CASE /\ AnswerLost(c, Room # {}, Harm(bad))
           /\ live' = [live EXCEPT ![Fresh] = [owner |-> c, policy |-> policy, at |-> None]]
  <2>1. Shape(Harm(bad)) /\ Held(Harm(bad)) = Held(ctx[c]) /\ Harm(bad).harmed /\ Harm(bad).open
    BY <1>2, Excused, Zenon DEF Follows
  <2> QED  BY <1>1, <1>5, <2>1, HoldsOneMore, Zenon DEF AnswerLost
<1> QED  BY <1>3, <1>4, <1>5, Zenon

(* A call that fails follows when it flushes what it holds. *)
LEMMA FailFollows ==
  ASSUME TpmInv, NEW c \in Contexts, NEW pc, Doing(c, pc), NEW result,
         NEW flush \in Seq(Handles), Named(ctx[c]) = {flush[k] : k \in 1..Len(flush)},
         \A k, l \in 1..Len(flush) : flush[k] = flush[l] => k = l
  PROVE  Follows(c, Return(ctx[c], result, flush))
<1>1. DOMAIN ctx[c] = Fields /\ ctx[c].open /\ Held(ctx[c]) = Named(ctx[c])  BY Ready, Zenon
<1> DEFINE y == Return(ctx[c], result, flush)
<1>2. /\ Shape(y) /\ Held(y) = {flush[k] : k \in 1..Len(flush)}
      /\ y.open = ctx[c].open /\ y.harmed = ctx[c].harmed
  BY <1>1, Returned, ZenonT(40)
<1> HIDE DEF y
<1>3. Follows(c, y)  BY <1>1, <1>2, Zenon DEF Follows
<1> QED  BY <1>3, Zenon DEF y

LEMMA FailsEmpty ==
  ASSUME TpmInv, NEW c \in Contexts, NEW pc, Doing(c, pc), NEW result, Named(ctx[c]) = {}
  PROVE  Follows(c, Return(ctx[c], result, <<>>))
<1> DEFINE flush == <<>>
<1>1. /\ flush \in Seq(Handles) /\ {flush[k] : k \in 1..Len(flush)} = {}
      /\ \A k, l \in 1..Len(flush) : flush[k] = flush[l] => k = l
  OBVIOUS
<1> HIDE DEF flush
<1>2. Follows(c, Return(ctx[c], result, flush))  BY <1>1, FailFollows, Zenon
<1> QED  BY <1>2, Zenon DEF flush

LEMMA FailsOne ==
  ASSUME TpmInv, NEW c \in Contexts, NEW pc, Doing(c, pc), NEW result, NEW h,
         Named(ctx[c]) = {h}
  PROVE  Follows(c, Return(ctx[c], result, <<h>>))
<1> DEFINE flush == <<h>>
<1>1. h \in Handles  BY Ready, Zenon
<1>2. /\ flush \in Seq(Handles) /\ {flush[k] : k \in 1..Len(flush)} = {h}
      /\ \A k, l \in 1..Len(flush) : flush[k] = flush[l] => k = l
  BY <1>1
<1> HIDE DEF flush
<1>3. Follows(c, Return(ctx[c], result, flush))  BY <1>2, FailFollows, Zenon
<1> QED  BY <1>3, Zenon DEF flush

LEMMA FailsTwo ==
  ASSUME TpmInv, NEW c \in Contexts, NEW pc, Doing(c, pc), NEW result, NEW g, NEW h, g # h,
         Named(ctx[c]) = {g, h}
  PROVE  Follows(c, Return(ctx[c], result, <<g, h>>))
<1> DEFINE flush == <<g, h>>
<1>1. g \in Handles /\ h \in Handles  BY Ready, Zenon
<1>2. /\ flush \in Seq(Handles) /\ Len(flush) = 2 /\ flush[1] = g /\ flush[2] = h
  BY <1>1
<1>3. /\ {flush[k] : k \in 1..Len(flush)} = {g, h}
      /\ \A k, l \in 1..Len(flush) : flush[k] = flush[l] => k = l
  BY <1>2
<1> HIDE DEF flush
<1>4. Follows(c, Return(ctx[c], result, flush))  BY <1>2, <1>3, FailFollows, Zenon
<1> QED  BY <1>4, Zenon DEF flush

---------------------------------------------------------------------------
(* Every command. *)

LEMMA ReadPublicStep ==
  ASSUME TpmInv, NEW c \in Contexts, ReadPublic(c)
  PROVE  TpmInv'
<1> DEFINE x == ctx[c]
           bad == [x EXCEPT !.pc = "primary"]
<1>1. Doing(c, "public")  BY Zenon DEF ReadPublic
<1>2. /\ DOMAIN x = Fields /\ x.pc = "public" /\ x.todo = <<>> /\ x.open
      /\ Held(x) = Named(x) /\ Shape(x)
  BY <1>1, Ready, Zenon
<1> USE <1>2
<1>3. Named(x) = {}  BY Zenon DEF Named
<1>4. Follows(c, bad)
  <2>1. /\ DOMAIN bad = Fields /\ bad.pc = "primary" /\ bad.todo = <<>> /\ bad.open
        /\ bad.harmed = x.harmed
    BY Zenon DEF Fields
  <2> USE <2>1
  <2> HIDE DEF bad
  <2>2. Named(bad) = {} /\ Flushing(bad) = {}  BY DEF Named, Flushing
  <2>3. Shape(bad)  BY <2>2 DEF Shape
  <2> QED  BY <1>3, <2>2, <2>3, Zenon DEF Follows, Held
<1>5. Follows(c, WithPrimary(x))
  <2> DEFINE good == WithPrimary(x)
  <2>1. /\ DOMAIN good = Fields /\ good.pc \in {"create", "trial", "load", "idle"}
        /\ good.todo = <<>> /\ good.open /\ good.harmed = x.harmed
    BY Zenon DEF WithPrimary, Fail, Return, Fields
  <2> USE <2>1
  <2> HIDE DEF good
  <2>2. Named(good) = {} /\ Flushing(good) = {}  BY DEF Named, Flushing
  <2>3. Shape(good)  BY <2>2 DEF Shape
  <2>4. Follows(c, good)  BY <1>3, <2>2, <2>3, Zenon DEF Follows, Held
  <2> QED  BY <2>4, Zenon DEF good
<1>6. Asks(c, Primary[c] \in persistent, WithPrimary(x), bad)  BY Zenon DEF ReadPublic
<1> QED  BY <1>4, <1>5, <1>6, AsksStep, Zenon

(* The context y of a command that made handle Fresh, which it names. *)
LEMMA NamesFresh ==
  ASSUME TpmInv, NEW c \in Contexts, NEW pc, Doing(c, pc), NEW y,
         DOMAIN y = Fields, y.todo = <<>>, y.open, y.harmed = ctx[c].harmed,
         Named(y) = Named(ctx[c]) \cup {Fresh},
         (y.pc = "policy" \/ (y.pc = "unseal" /\ y.op # "unseal")) => y.session # y.item,
         y.pc \in {"session", "policy"} => y.op # "unseal"
  PROVE  /\ Shape(y) /\ y.open /\ Held(y) = Held(ctx[c]) \cup {Fresh}
         /\ ctx[c].harmed => y.harmed
<1>1. Held(ctx[c]) = Named(ctx[c])  BY Ready, Zenon
<1>2. Flushing(y) = {}  BY DEF Flushing
<1>3. Shape(y)  BY <1>2 DEF Shape
<1> QED  BY <1>1, <1>2, <1>3, Zenon DEF Held

LEMMA CreatePrimaryStep ==
  ASSUME TpmInv, NEW c \in Contexts, CreatePrimary(c)
  PROVE  TpmInv'
<1> DEFINE x == ctx[c]
           good == [x EXCEPT !.pc = "evict", !.transient = Fresh]
           bad == Fail(x, <<>>)
<1>1. Doing(c, "primary")  BY Zenon DEF CreatePrimary
<1> USE <1>1
<1>2. DOMAIN x = Fields /\ x.pc = "primary" /\ x.todo = <<>> /\ x.open  BY Ready, Zenon
<1>3. Named(x) = {}  BY <1>2, Zenon DEF Named
<1>4. Follows(c, bad)  BY <1>3, FailsEmpty, Zenon DEF Fail
<1>5. /\ DOMAIN good = Fields /\ good.todo = <<>> /\ good.open /\ good.harmed = x.harmed
      /\ good.pc = "evict" /\ good.transient = Fresh
  BY <1>2, Zenon DEF Fields
<1>6. \/ /\ Succeeds(c, Room # {}, good)
         /\ live' = [live EXCEPT ![Fresh] = [owner |-> c, policy |-> None, at |-> None]]
      \/ Refused(c, Room # {}, IF Room # {} THEN bad ELSE Excuse(bad))
      \/ /\ AnswerLost(c, Room # {}, Harm(bad))
         /\ live' = [live EXCEPT ![Fresh] = [owner |-> c, policy |-> None, at |-> None]]
  BY Zenon DEF CreatePrimary, Creates
<1> HIDE DEF good, bad
<1>7. Named(good) = {Fresh}  BY <1>5, Zenon DEF Named
<1>8. /\ Shape(good) /\ good.open /\ Held(good) = Held(x) \cup {Fresh}
      /\ x.harmed => good.harmed
  BY <1>3, <1>5, <1>7, NamesFresh, Zenon
<1> QED  BY <1>4, <1>6, <1>8, CreatesStep, Zenon

LEMMA StartTrialSessionStep ==
  ASSUME TpmInv, NEW c \in Contexts, StartTrialSession(c)
  PROVE  TpmInv'
<1> DEFINE x == ctx[c]
           good == [x EXCEPT !.pc = "trial_policy", !.session = Fresh]
           bad == Fail(x, <<>>)
<1>1. Doing(c, "trial")  BY Zenon DEF StartTrialSession
<1> USE <1>1
<1>2. DOMAIN x = Fields /\ x.pc = "trial" /\ x.todo = <<>> /\ x.open /\ Named(x) \subseteq Handles
  BY Ready, Zenon
<1>3. Named(x) = {}  BY <1>2, Zenon DEF Named
<1>4. Follows(c, bad)  BY <1>3, FailsEmpty, Zenon DEF Fail
<1>5. /\ DOMAIN good = Fields /\ good.todo = <<>> /\ good.open /\ good.harmed = x.harmed
      /\ good.pc = "trial_policy" /\ good.session = Fresh
  BY <1>2, Zenon DEF Fields
<1>6. \/ /\ Succeeds(c, Room # {}, good)
         /\ live' = [live EXCEPT ![Fresh] = [owner |-> c, policy |-> None, at |-> None]]
      \/ Refused(c, Room # {}, IF Room # {} THEN bad ELSE Excuse(bad))
      \/ /\ AnswerLost(c, Room # {}, Harm(bad))
         /\ live' = [live EXCEPT ![Fresh] = [owner |-> c, policy |-> None, at |-> None]]
  BY Zenon DEF StartTrialSession, Creates
<1> HIDE DEF good, bad
<1>7. Named(good) = {Fresh}  BY <1>5, Zenon DEF Named
<1>8. /\ Shape(good) /\ good.open /\ Held(good) = Held(x) \cup {Fresh}
      /\ x.harmed => good.harmed
  BY <1>3, <1>5, <1>7, NamesFresh, Zenon
<1> QED  BY <1>4, <1>6, <1>8, CreatesStep, Zenon

LEMMA LoadStep ==
  ASSUME TpmInv, NEW c \in Contexts, Load(c)
  PROVE  TpmInv'
<1> DEFINE x == ctx[c]
           good == [x EXCEPT !.item = Fresh,
                             !.pc = IF x.op = "unseal" THEN "unseal" ELSE "session"]
           bad == Fail(x, <<>>)
<1>1. Doing(c, "load")  BY Zenon DEF Load
<1> USE <1>1
<1>2. DOMAIN x = Fields /\ x.pc = "load" /\ x.todo = <<>> /\ x.open /\ Named(x) \subseteq Handles
  BY Ready, Zenon
<1>3. Named(x) = {}  BY <1>2, Zenon DEF Named
<1>4. Follows(c, bad)  BY <1>3, FailsEmpty, Zenon DEF Fail
<1>5. /\ DOMAIN good = Fields /\ good.todo = <<>> /\ good.open /\ good.harmed = x.harmed
      /\ good.pc = (IF x.op = "unseal" THEN "unseal" ELSE "session") /\ good.op = x.op
      /\ good.item = Fresh
  BY <1>2, Zenon DEF Fields
<1>6. \/ /\ Succeeds(c, Room # {}, good)
         /\ live' = [live EXCEPT ![Fresh] = [owner |-> c, policy |-> x.blob.policy, at |-> None]]
      \/ Refused(c, Room # {}, IF Room # {} THEN bad ELSE Excuse(bad))
      \/ /\ AnswerLost(c, Room # {}, Harm(bad))
         /\ live' = [live EXCEPT ![Fresh] = [owner |-> c, policy |-> x.blob.policy, at |-> None]]
  BY Zenon DEF Load, Creates
<1> HIDE DEF good, bad
<1>7. Named(good) = {Fresh}  BY <1>5, Zenon DEF Named
<1>8. /\ Shape(good) /\ good.open /\ Held(good) = Held(x) \cup {Fresh}
      /\ x.harmed => good.harmed
  BY <1>3, <1>5, <1>7, NamesFresh, Zenon
<1> QED  BY <1>4, <1>6, <1>8, CreatesStep, Zenon

LEMMA StartSessionStep ==
  ASSUME TpmInv, NEW c \in Contexts, StartSession(c)
  PROVE  TpmInv'
<1> DEFINE x == ctx[c]
           good == [x EXCEPT !.pc = "policy", !.session = Fresh]
           bad == Fail(x, <<x.item>>)
<1>1. Doing(c, "session")  BY Zenon DEF StartSession
<1> USE <1>1
<1>2. DOMAIN x = Fields /\ x.pc = "session" /\ x.todo = <<>> /\ x.open /\ Shape(x)
  BY Ready, Zenon
<1>3. Named(x) = {x.item}  BY <1>2, Zenon DEF Named
<1> USE <1>3
<1>4. Follows(c, bad)  BY FailsOne, Zenon DEF Fail
<1>5. /\ DOMAIN good = Fields /\ good.todo = <<>> /\ good.open /\ good.harmed = x.harmed
      /\ good.pc = "policy" /\ good.session = Fresh /\ good.item = x.item
      /\ good.op = x.op /\ x.op # "unseal"
  BY <1>2, Zenon DEF Fields, Shape
<1> USE <1>5
<1>6. \/ /\ Succeeds(c, Room # {}, good)
         /\ live' = [live EXCEPT ![Fresh] = [owner |-> c, policy |-> None, at |-> None]]
      \/ Refused(c, Room # {}, IF Room # {} THEN bad ELSE Excuse(bad))
      \/ /\ AnswerLost(c, Room # {}, Harm(bad))
         /\ live' = [live EXCEPT ![Fresh] = [owner |-> c, policy |-> None, at |-> None]]
  BY Zenon DEF StartSession, Creates
<1> HIDE DEF good, bad
<1>7. Named(good) = Named(x) \cup {Fresh}  BY Zenon DEF Named
<1>8. ASSUME Fresh \in Handles, live[Fresh].owner = None
      PROVE  /\ Shape(good) /\ good.open /\ Held(good) = Held(x) \cup {Fresh}
             /\ x.harmed => good.harmed
  <2>1. Covered(c)  BY Zenon DEF TpmInv
  <2>2. live[x.item].owner = c  BY <2>1, Zenon DEF Covered, Held, Owned
  <2>3. good.session # good.item  BY <1>8, <2>2, NoneAssumption, Zenon
  <2> QED  BY <1>7, <2>3, NamesFresh, Zenon
<1> QED  BY <1>4, <1>6, <1>8, CreatesStep, Zenon

LEMMA EvictControlStep ==
  ASSUME TpmInv, NEW c \in Contexts, EvictControl(c)
  PROVE  TpmInv'
<1> DEFINE x == ctx[c]
           ok == Primary[c] \notin persistent
           good == [WithPrimary(x) EXCEPT !.todo = <<x.transient>>]
           bad == Excuse(Fail(x, <<x.transient>>))
<1>1. Doing(c, "evict")  BY Zenon DEF EvictControl
<1> USE <1>1
<1>2. DOMAIN x = Fields /\ x.pc = "evict" /\ Named(x) \subseteq Handles /\ LiveShape
  BY Ready, Zenon
<1> USE <1>2
<1>3. Named(x) = {x.transient}  BY Zenon DEF Named
<1> USE <1>3
<1>4. Follows(c, good)
  <2>1. /\ DOMAIN good = Fields /\ good.pc \in {"create", "trial", "load", "idle"}
        /\ good.todo = <<x.transient>> /\ good.open = x.open /\ good.harmed = x.harmed
    BY Zenon DEF WithPrimary, Fail, Return, Fields
  <2> USE <2>1
  <2> HIDE DEF good
  <2>2. Named(good) = {} /\ Flushing(good) = {x.transient}  BY DEF Named, Flushing
  <2>3. Shape(good)  BY <2>2 DEF Shape
  <2> QED  BY <2>2, <2>3, Ready, Zenon DEF Follows, Held
<1>5. Follows(c, bad)
  <2>1. Follows(c, Fail(x, <<x.transient>>))  BY FailsOne, Zenon DEF Fail
  <2>2. DOMAIN Fail(x, <<x.transient>>) = Fields  BY <2>1, Zenon DEF Follows, Shape
  <2> QED  BY <2>1, <2>2, Excused, Zenon DEF Follows
<1>6. \/ Succeeds(c, ok, good) /\ UNCHANGED live
      \/ Refused(c, ok, bad)
      \/ AnswerLost(c, ok, bad) /\ UNCHANGED live
  BY Zenon DEF EvictControl, FlushTransient
<1> HIDE DEF good, bad
<1>7. CASE live' = live /\ \E y \in {good, bad} : ctx' = [ctx EXCEPT ![c] = y]
  <2>1. LiveShape' /\ \A h \in Handles : live'[h].owner = live[h].owner
    BY <1>7, Zenon DEF LiveShape
  <2> QED  BY <1>4, <1>5, <1>7, <2>1, HoldsTheSame, Zenon DEF Follows
<1>8. CASE Refused(c, ok, bad)  BY <1>5, <1>8, RefusedStep, Zenon
<1> QED  BY <1>6, <1>7, <1>8, Zenon DEF Succeeds, AnswerLost

LEMMA PolicyPCRStep ==
  ASSUME TpmInv, NEW c \in Contexts, NEW good, NEW bad, PolicyPCR(c, good, bad),
         Follows(c, good), Follows(c, bad)
  PROVE  TpmInv'
<1> DEFINE s == ctx[c].session
<1>1. LiveShape  BY Zenon DEF TpmInv
<1>2. CASE /\ Succeeds(c, TRUE, good)
           /\ live' = [live EXCEPT ![s].policy = Digest(ctx[c].index), ![s].at = pcr]
  <2>1. LiveShape' /\ \A h \in Handles : live'[h].owner = live[h].owner
    BY <1>1, <1>2, Zenon DEF LiveShape
  <2> QED  BY <1>2, <2>1, HoldsTheSame, Zenon DEF Succeeds, Follows
<1>3. CASE Refused(c, TRUE, bad)  BY <1>3, RefusedStep, Zenon
<1> QED  BY <1>2, <1>3, Zenon DEF PolicyPCR

LEMMA TrialPolicyStep ==
  ASSUME TpmInv, NEW c \in Contexts, TrialPolicy(c)
  PROVE  TpmInv'
<1> DEFINE x == ctx[c]
           good == [x EXCEPT !.pc = "digest", !.asked = Digest(x.index)]
           bad == Fail(x, <<x.session>>)
<1>1. Doing(c, "trial_policy")  BY Zenon DEF TrialPolicy
<1> USE <1>1
<1>2. DOMAIN x = Fields /\ x.pc = "trial_policy" /\ x.todo = <<>> /\ x.open  BY Ready, Zenon
<1>3. Named(x) = {x.session} /\ Held(x) = Named(x)  BY <1>2, Ready, Zenon DEF Named
<1>4. Follows(c, bad)  BY <1>3, FailsOne, Zenon DEF Fail
<1>5. PolicyPCR(c, good, bad)  BY Zenon DEF TrialPolicy
<1>6. /\ DOMAIN good = Fields /\ good.pc = "digest" /\ good.todo = <<>> /\ good.open
      /\ good.harmed = x.harmed /\ good.session = x.session
  BY <1>2, Zenon DEF Fields
<1> USE <1>6
<1> HIDE DEF good, bad
<1>7. Named(good) = {x.session} /\ Flushing(good) = {}  BY DEF Named, Flushing
<1>8. Shape(good)  BY <1>7 DEF Shape
<1>9. Follows(c, good)  BY <1>3, <1>7, <1>8, Zenon DEF Follows, Held
<1> QED  BY <1>4, <1>5, <1>9, PolicyPCRStep, Zenon

LEMMA SessionPolicyStep ==
  ASSUME TpmInv, NEW c \in Contexts, SessionPolicy(c)
  PROVE  TpmInv'
<1> DEFINE x == ctx[c]
           good == [x EXCEPT !.pc = "unseal"]
           bad == Fail(x, <<x.session, x.item>>)
<1>1. Doing(c, "policy")  BY Zenon DEF SessionPolicy
<1> USE <1>1
<1>2. DOMAIN x = Fields /\ x.pc = "policy" /\ x.todo = <<>> /\ x.open /\ Shape(x)  BY Ready, Zenon
<1> USE <1>2
<1>3. Named(x) = {x.session, x.item} /\ Held(x) = Named(x) /\ x.session # x.item
  BY Ready, Zenon DEF Named, Shape
<1> USE <1>3
<1>4. Follows(c, bad)  BY FailsTwo, Zenon DEF Fail
<1>5. PolicyPCR(c, good, bad)  BY Zenon DEF SessionPolicy
<1>6. /\ DOMAIN good = Fields /\ good.pc = "unseal" /\ good.todo = <<>> /\ good.open
      /\ good.harmed = x.harmed /\ good.session = x.session /\ good.item = x.item
      /\ good.op = x.op
  BY Zenon DEF Fields
<1> USE <1>6
<1> HIDE DEF good, bad
<1>7. Named(good) = {x.session, x.item} /\ Flushing(good) = {}
  BY DEF Named, Flushing, Shape
<1>8. Shape(good)  BY <1>7 DEF Shape
<1>9. Follows(c, good)  BY <1>7, <1>8, Zenon DEF Follows, Held
<1> QED  BY <1>4, <1>5, <1>9, PolicyPCRStep, Zenon

LEMMA PolicyGetDigestStep ==
  ASSUME TpmInv, NEW c \in Contexts, PolicyGetDigest(c)
  PROVE  TpmInv'
<1> DEFINE x == ctx[c]
           good == [x EXCEPT !.pc = "create", !.digest = live[x.session].policy,
                             !.todo = <<x.session>>]
           bad == Fail(x, <<x.session>>)
<1>1. Doing(c, "digest")  BY Zenon DEF PolicyGetDigest
<1> USE <1>1
<1>2. DOMAIN x = Fields /\ x.pc = "digest" /\ x.open /\ Named(x) \subseteq Handles  BY Ready, Zenon
<1> USE <1>2
<1>3. Named(x) = {x.session} /\ Held(x) = Named(x)  BY Ready, Zenon DEF Named
<1> USE <1>3
<1>4. Follows(c, bad)  BY FailsOne, Zenon DEF Fail
<1>5. Asks(c, TRUE, good, bad)  BY Zenon DEF PolicyGetDigest
<1>6. /\ DOMAIN good = Fields /\ good.pc = "create" /\ good.todo = <<x.session>> /\ good.open
      /\ good.harmed = x.harmed
  BY Zenon DEF Fields
<1> USE <1>6
<1> HIDE DEF good, bad
<1>7. Named(good) = {} /\ Flushing(good) = {x.session}  BY DEF Named, Flushing
<1>8. Shape(good)  BY <1>7 DEF Shape
<1>9. Follows(c, good)  BY <1>7, <1>8, Zenon DEF Follows, Held
<1> QED  BY <1>4, <1>5, <1>9, AsksStep, Zenon

LEMMA CreateStep ==
  ASSUME TpmInv, NEW c \in Contexts, Create(c)
  PROVE  TpmInv'
<1> DEFINE x == ctx[c]
           good == Return(x, <<"sealed">>, <<>>)
           bad == Fail(x, <<>>)
<1>1. Doing(c, "create")  BY Zenon DEF Create
<1>2. x.pc = "create" /\ LiveShape  BY <1>1, Ready, Zenon
<1>3. Named(x) = {}  BY <1>2, Zenon DEF Named
<1>4. Follows(c, good) /\ Follows(c, bad)  BY <1>1, <1>3, FailsEmpty, Zenon DEF Fail
<1>5. (Succeeds(c, TRUE, good) /\ UNCHANGED live) \/ Refused(c, TRUE, bad)  BY Zenon DEF Create
<1> HIDE DEF good, bad
<1>6. CASE Succeeds(c, TRUE, good) /\ UNCHANGED live
  <2>1. LiveShape' /\ \A h \in Handles : live'[h].owner = live[h].owner
    BY <1>2, <1>6, Zenon DEF LiveShape
  <2> QED  BY <1>4, <1>6, <2>1, HoldsTheSame, Zenon DEF Succeeds, Follows
<1>7. CASE Refused(c, TRUE, bad)  BY <1>4, <1>7, RefusedStep, Zenon
<1> QED  BY <1>5, <1>6, <1>7, Zenon

LEMMA UnsealStep ==
  ASSUME TpmInv, NEW c \in Contexts, Unseal(c)
  PROVE  TpmInv'
<1> DEFINE x == ctx[c]
           flush == IF x.op = "unseal" THEN <<x.item>> ELSE <<x.session, x.item>>
           good == Return(x, <<"data", x.blob, pcr>>, flush)
           bad == Fail(x, flush)
<1>1. Doing(c, "unseal")  BY Zenon DEF Unseal
<1> USE <1>1
<1>2. x.pc = "unseal" /\ Shape(x)  BY Ready, Zenon
<1>3. PICK ok : Asks(c, ok, good, bad)  BY Zenon DEF Unseal
<1>4. ASSUME NEW result PROVE Follows(c, Return(x, result, flush))
  <2>1. CASE x.op = "unseal"
    <3>1. Named(x) = {x.item}  BY <1>2, <2>1, Zenon DEF Named
    <3> QED  BY <2>1, <3>1, FailsOne, Zenon
  <2>2. CASE x.op # "unseal"
    <3>1. Named(x) = {x.session, x.item} /\ x.session # x.item
      BY <1>2, <2>2, Zenon DEF Named, Shape
    <3> QED  BY <2>2, <3>1, FailsTwo, Zenon
  <2> QED  BY <2>1, <2>2, Zenon
<1>5. Follows(c, good) /\ Follows(c, bad)  BY <1>4, Zenon DEF Fail
<1> HIDE DEF good, bad
<1> QED  BY <1>3, <1>5, AsksStep, Zenon

(* The context that has taken the first of its flushes. *)
LEMMA FlushesOne ==
  ASSUME NEW x, Shape(x), x.todo # <<>>
  PROVE  LET y == [x EXCEPT !.todo = Tail(@)]
         IN  /\ Shape(y) /\ Held(y) = Held(x) \ {Head(x.todo)}
             /\ y.open = x.open /\ y.harmed = x.harmed
<1> DEFINE y == [x EXCEPT !.todo = Tail(@)]
           s == x.todo
           t == Tail(s)
<1>1. DOMAIN x = Fields /\ s \in Seq(Handles) /\ s # <<>>  BY Zenon DEF Shape
<1>2. /\ DOMAIN y = Fields /\ y.todo = t /\ y.pc = x.pc /\ y.op = x.op /\ y.open = x.open
      /\ y.transient = x.transient /\ y.session = x.session /\ y.item = x.item
      /\ y.harmed = x.harmed
  BY <1>1, Zenon DEF Fields
<1>3. /\ t \in Seq(Handles) /\ Len(t) = Len(s) - 1 /\ Len(s) \in Nat /\ Len(s) >= 1
      /\ \A k \in 1..Len(t) : t[k] = s[k + 1]
      /\ Head(s) = s[1]
  BY <1>1
<1>4. \A k, l \in 1..Len(s) : s[k] = s[l] => k = l  BY Zenon DEF Shape
<1> HIDE DEF y, t
<1>5. Named(y) = Named(x)  BY <1>2, Zenon DEF Named
<1>6. {t[k] : k \in 1..Len(t)} = {s[k] : k \in 1..Len(s)} \ {s[1]}
  <2>1. ASSUME NEW k \in 1..Len(t) PROVE t[k] \in {s[l] : l \in 1..Len(s)} \ {s[1]}
    <3>1. k + 1 \in 1..Len(s) /\ k + 1 # 1 /\ 1 \in 1..Len(s)  BY <1>3, <2>1
    <3>2. t[k] = s[k + 1]  BY <1>3, <2>1, Zenon
    <3> QED  BY <1>4, <3>1, <3>2, Zenon
  <2>2. ASSUME NEW k \in 1..Len(s), s[k] # s[1] PROVE s[k] \in {t[l] : l \in 1..Len(t)}
    <3>1. k - 1 \in 1..Len(t) /\ (k - 1) + 1 = k  BY <1>3, <2>2
    <3>2. t[k - 1] = s[(k - 1) + 1]  BY <1>3, <3>1, Zenon
    <3> QED  BY <3>1, <3>2, Zenon
  <2> QED  BY <2>1, <2>2, Zenon
<1>7. Flushing(y) = Flushing(x) \ {Head(s)}
  <2>1. Flushing(y) = {t[k] : k \in 1..Len(t)}  BY <1>2, Zenon DEF Flushing
  <2>2. Flushing(x) = {s[k] : k \in 1..Len(s)}  BY Zenon DEF Flushing
  <2>3. Head(s) = s[1]  BY <1>3, Zenon
  <2> HIDE DEF s
  <2> QED  BY <1>6, <2>1, <2>2, <2>3, Zenon
<1>8. Head(s) \in Flushing(x)  BY <1>3 DEF Flushing
<1>9. Named(x) \cap Flushing(x) = {}  BY Zenon DEF Shape
<1>10. Held(y) = Held(x) \ {Head(s)}  BY <1>5, <1>7, <1>8, <1>9, Zenon DEF Held
<1>11. \A k, l \in 1..Len(t) : t[k] = t[l] => k = l
  <2> SUFFICES ASSUME NEW k \in 1..Len(t), NEW l \in 1..Len(t), t[k] = t[l] PROVE k = l
    BY Zenon
  <2>1. k + 1 \in 1..Len(s) /\ l + 1 \in 1..Len(s) /\ s[k + 1] = s[l + 1]  BY <1>3
  <2> QED  BY <1>4, <2>1
<1>12. Shape(y)  BY <1>2, <1>3, <1>5, <1>7, <1>9, <1>11, Zenon DEF Shape
<1> QED  BY <1>2, <1>10, <1>12, Zenon DEF y

LEMMA FlushStep ==
  ASSUME TpmInv, NEW c \in Contexts, Flush(c)
  PROVE  TpmInv'
<1> DEFINE x == ctx[c]
           h == Head(x.todo)
           y == [x EXCEPT !.todo = Tail(@)]
           z == Harm(y)
<1>1. Covered(c) /\ LiveShape /\ x.open /\ x.todo # <<>>  BY Zenon DEF TpmInv, Flush
<1> USE <1>1
<1>2. Shape(x) /\ Held(x) \subseteq Owned(c)  BY Zenon DEF Covered
<1> USE <1>2
<1>3. Shape(y) /\ Held(y) = Held(x) \ {h} /\ y.open = x.open /\ y.harmed = x.harmed
  BY FlushesOne, Zenon
<1> USE <1>3
<1>4. h \in Held(x)
  <2>1. x.todo \in Seq(Handles)  BY Zenon DEF Shape
  <2>2. h = x.todo[1] /\ 1 \in 1..Len(x.todo)  BY <2>1
  <2> QED  BY <2>2, Zenon DEF Held, Flushing
<1>5. h \in Handles /\ live[h].owner = c  BY <1>4, Zenon DEF Owned
<1>6. \/ Succeeds(c, TRUE, y) /\ live' = [live EXCEPT ![h] = Free]
      \/ Refused(c, TRUE, z)
  BY Zenon DEF Flush
<1>7. Excuse(z).open = y.open /\ Excuse(z).harmed /\ Held(Excuse(z)) = Held(y) /\ Shape(Excuse(z))
  <2>1. DOMAIN y = Fields  BY Zenon DEF Shape
  <2> HIDE DEF y
  <2>2. Shape(z) /\ Held(z) = Held(y) /\ z.open = y.open /\ z.harmed  BY <2>1, Excused, Zenon
  <2>3. DOMAIN z = Fields  BY <2>2, Zenon DEF Shape
  <2> HIDE DEF z
  <2> QED  BY <2>2, <2>3, Excused, Zenon
<1> HIDE DEF y, z, h
<1>8. CASE Succeeds(c, TRUE, y) /\ live' = [live EXCEPT ![h] = Free]
  <2> USE <1>8
  <2>1. ctx' = [ctx EXCEPT ![c] = y] /\ ctx'[c] = y  BY Zenon DEF Succeeds, TpmInv
  <2>2. LiveShape'  BY Zenon DEF LiveShape, Free
  <2>3. live'[h].owner = None /\ \A g \in Handles \ {h} : live'[g] = live[g]
    BY <1>5, Zenon DEF LiveShape, Free
  <2>4. Owned(c)' = Owned(c) \ {h}  BY <2>3, NoneAssumption, Zenon DEF Owned
  <2>5. Covered(c)'  BY <2>1, <2>4, Zenon DEF Covered
  <2>6. \A g \in Handles : \A d \in Contexts \ {c} : live'[g].owner = d <=> live[g].owner = d
    BY <1>5, <2>3, NoneAssumption, Zenon
  <2> QED  BY <2>1, <2>2, <2>5, <2>6, OthersKept, Zenon
<1>9. CASE Refused(c, TRUE, z)
  <2>1. ctx' = [ctx EXCEPT ![c] = Excuse(z)] /\ live' = live  BY <1>9, Zenon DEF Refused
  <2> USE <2>1
  <2>2. ctx'[c] = Excuse(z)  BY Zenon DEF TpmInv
  <2>3. LiveShape' /\ Owned(c)' = Owned(c)  BY Zenon DEF LiveShape, Owned
  <2>4. Covered(c)'  BY <1>7, <2>2, <2>3, Zenon DEF Covered
  <2> QED  BY <2>3, <2>4, OthersKept, Zenon
<1> QED  BY <1>6, <1>8, <1>9, Zenon

---------------------------------------------------------------------------
(* What the users do, and the theorem. *)

LEMMA ClosedShape == Shape(Closed) /\ Held(Closed) = {}
<1>1. /\ DOMAIN Closed = Fields /\ Closed.pc = "idle" /\ Closed.todo = <<>>
  BY Zenon DEF Closed, Fields
<1>2. Named(Closed) = {} /\ Flushing(Closed) = {}  BY <1>1 DEF Named, Flushing
<1> QED  BY <1>1, <1>2 DEF Shape, Held

LEMMA OpenStep ==
  ASSUME TpmInv, NEW c \in Contexts, Open(c)
  PROVE  TpmInv'
<1> DEFINE y == [Closed EXCEPT !.open = TRUE]
<1>1. ctx[c] = Closed /\ LiveShape /\ Covered(c)  BY Zenon DEF TpmInv, Covered, Open
<1> USE <1>1
<1>2. ctx' = [ctx EXCEPT ![c] = y] /\ live' = live  BY Zenon DEF Open
<1>3. /\ DOMAIN y = Fields /\ y.pc = "idle" /\ y.todo = <<>> /\ y.open
      /\ Closed.harmed = FALSE /\ y.harmed = FALSE
  BY Zenon DEF Closed, Fields
<1> USE <1>3
<1> HIDE DEF y
<1>4. Named(y) = {} /\ Flushing(y) = {}  BY DEF Named, Flushing
<1>5. Shape(y) /\ Held(y) = Held(ctx[c])  BY <1>4, ClosedShape DEF Shape, Held
<1>6. LiveShape' /\ \A h \in Handles : live'[h].owner = live[h].owner
  BY <1>2, Zenon DEF LiveShape
<1> QED  BY <1>2, <1>5, <1>6, HoldsTheSame, Zenon

LEMMA CleanupStep ==
  ASSUME TpmInv, NEW c \in Contexts, Cleanup(c)
  PROVE  TpmInv'
<1>1. /\ ctx' = [ctx EXCEPT ![c] = Closed]
      /\ live' = [h \in Handles |-> IF live[h].owner = c THEN Free ELSE live[h]]
  BY Zenon DEF Cleanup
<1> USE <1>1
<1>2. LiveShape  BY Zenon DEF TpmInv
<1>3. ctx'[c] = Closed  BY Zenon DEF TpmInv
<1>4. Free.owner = None /\ DOMAIN Free = {"owner", "policy", "at"}  BY Zenon DEF Free
<1> USE <1>4
<1>5. LiveShape'  BY <1>2, Zenon DEF LiveShape
<1>6. Owned(c)' = {}  BY NoneAssumption, Zenon DEF Owned
<1>7. Covered(c)'  BY <1>3, <1>6, ClosedShape, Zenon DEF Covered
<1>8. \A g \in Handles : \A d \in Contexts \ {c} : live'[g].owner = d <=> live[g].owner = d
  BY NoneAssumption
<1> QED  BY <1>5, <1>7, <1>8, OthersKept, Zenon

LEMMA CallStep ==
  ASSUME TpmInv, NEW c \in Contexts, NEW op, NEW i, NEW b, Call(c, op, i, b)
  PROVE  TpmInv'
<1> DEFINE x == ctx[c]
           y == [Closed EXCEPT !.open = TRUE, !.pc = "public", !.op = op,
                               !.index = i, !.blob = b, !.harmed = x.harmed]
<1>1. Doing(c, "idle") /\ ctx' = [ctx EXCEPT ![c] = y] /\ live' = live  BY Zenon DEF Call
<1> USE <1>1
<1>2. x.pc = "idle" /\ LiveShape /\ Held(x) = Named(x)  BY Ready, Zenon
<1>3. Held(x) = {}  BY <1>2, Zenon DEF Named
<1>4. /\ DOMAIN y = Fields /\ y.pc = "public" /\ y.todo = <<>> /\ y.open /\ y.harmed = x.harmed
  BY Zenon DEF Closed, Fields
<1> USE <1>4
<1> HIDE DEF y
<1>5. Named(y) = {} /\ Flushing(y) = {}  BY DEF Named, Flushing
<1>6. Shape(y) /\ Held(y) = Held(x)  BY <1>3, <1>5 DEF Shape, Held
<1>7. LiveShape' /\ \A h \in Handles : live'[h].owner = live[h].owner
  BY <1>2, Zenon DEF LiveShape
<1> QED  BY <1>6, <1>7, HoldsTheSame, Zenon

LEMMA ExtendStep ==
  ASSUME TpmInv, NEW i \in Indexes, Extend(i)
  PROVE  TpmInv'
<1>1. /\ ctx' = [c \in Contexts |-> IF ctx[c].pc = "idle" THEN ctx[c] ELSE Excuse(ctx[c])]
      /\ live' = live
  BY Zenon DEF Extend
<1> USE <1>1
<1>2. LiveShape'  BY Zenon DEF TpmInv, LiveShape
<1>3. ASSUME NEW c \in Contexts PROVE Covered(c)'
  <2>1. Covered(c)  BY Zenon DEF TpmInv
  <2> USE <2>1
  <2>2. Owned(c)' = Owned(c)  BY Zenon DEF Owned
  <2>3. CASE ctx[c].pc = "idle"
    <3>1. ctx'[c] = ctx[c]  BY <2>3, Zenon
    <3> QED  BY <2>2, <3>1, Zenon DEF Covered
  <2>4. CASE ctx[c].pc # "idle"
    <3>1. ctx'[c] = Excuse(ctx[c])  BY <2>4, Zenon
    <3>2. Shape(ctx[c]) /\ DOMAIN ctx[c] = Fields  BY Zenon DEF Covered, Shape
    <3>3. ctx[c].open  BY <2>4 DEF Covered, Closed
    <3> QED  BY <2>2, <3>1, <3>2, <3>3, Excused, Zenon DEF Covered
  <2> QED  BY <2>3, <2>4, Zenon
<1> QED  BY <1>2, <1>3, Zenon DEF TpmInv

LEMMA InitTpm == Init => TpmInv
<1> SUFFICES ASSUME Init PROVE TpmInv  BY Zenon
<1>1. LiveShape /\ \A h \in Handles : live[h].owner = None  BY Zenon DEF Init, LiveShape, Free
<1>2. \A c \in Contexts : ctx[c] = Closed /\ Owned(c) = {}
  BY <1>1, NoneAssumption, Zenon DEF Init, Owned
<1>3. \A c \in Contexts : Covered(c)  BY <1>2, ClosedShape, Zenon DEF Covered
<1> QED  BY <1>1, <1>3, Zenon DEF TpmInv, Init

LEMMA TpmNext == TpmInv /\ [Next]_vars => TpmInv'
<1> SUFFICES ASSUME TpmInv, [Next]_vars PROVE TpmInv'  BY Zenon
<1>1. ASSUME NEW c \in Contexts, Step(c) PROVE TpmInv'
  BY Zenon, <1>1, ReadPublicStep, CreatePrimaryStep, EvictControlStep, StartTrialSessionStep,
     TrialPolicyStep, PolicyGetDigestStep, CreateStep, LoadStep, StartSessionStep,
     SessionPolicyStep, UnsealStep, FlushStep DEF Step
<1>2. ASSUME NEW c \in Contexts, CallSeal(c) \/ CallUnseal(c) PROVE TpmInv'
  BY <1>2, CallStep, Zenon DEF CallSeal, CallUnseal
<1>3. CASE UNCHANGED vars
  BY <1>3, Zenon DEF vars, TpmInv, LiveShape, Covered, Owned
<1> QED  BY <1>1, <1>2, <1>3, OpenStep, CleanupStep, ExtendStep, Zenon DEF Next

(* On no path through bio_tpm_seal_for_user, bio_tpm_unseal_for_user and   *)
(* their PCR forms, whichever commands fail and whatever other contexts do *)
(* meanwhile, does a call return with a transient handle it did not flush: *)
(* only a lost answer or a failed flush leaves one behind.                 *)
THEOREM NoHandleForgotten == Spec => []NothingLeftBehind
<1>1. TpmInv => NothingLeftBehind
  <2> SUFFICES ASSUME TpmInv, NEW c \in Contexts, Doing(c, "idle"), ~ctx[c].harmed,
                      NEW h \in Handles
               PROVE  live[h].owner # c
    BY Zenon DEF NothingLeftBehind
  <2>1. ctx[c].pc = "idle" /\ Held(ctx[c]) = Named(ctx[c])  BY Ready, Zenon
  <2>2. Held(ctx[c]) = {}  BY <2>1, Zenon DEF Named
  <2>3. Owned(c) = {}  BY <2>2, Zenon DEF TpmInv, Covered
  <2> QED  BY <2>3, Zenon DEF Owned
<1> QED  BY <1>1, InitTpm, TpmNext, PTL DEF Spec

---------------------------------------------------------------------------
(* Sealed data comes back when it should and only then.  The argument      *)
(* follows what a digest means from the trial session, through the blob,   *)
(* to the session that opens it.                                           *)

Seals == {"seal", "seal_pcr"}
Unseals == {"unseal", "unseal_pcr"}

(* A digest that PCR i had or has, p being the present values. *)
PastValue(d, i, p) == \E v \in 0..p[i] : d = <<i, v>>

(* A blob bound to no PCR has no policy; the policy of another is what it  *)
(* was meant to be bound to, a value its PCR had.                          *)
BlobSound(b, p) ==
  IF b.index = None THEN b.policy = None
                    ELSE b.index \in Indexes /\ b.policy = b.made /\ PastValue(b.made, b.index, p)

(* A context in a call, or that has returned from one, knows what the call *)
(* is about.                                                               *)
About(x, B) ==
  x.pc # "idle" \/ x.result # <<>> =>
    x.index \in Indexes /\ x.op \in Seals \cup Unseals /\ (x.op \in Unseals => x.blob \in B)

(* While it runs: the digest to seal with, the policy of the loaded object *)
(* and that of the session are the ones the call is about.                 *)
Sealing(x, l, p) ==
  /\ x.pc \in {"public", "primary", "evict"} => x.digest = None
  /\ x.pc \in {"trial", "trial_policy", "digest"} => x.op = "seal_pcr"
  /\ x.pc = "digest" => l[x.session].policy = x.asked /\ PastValue(x.asked, x.index, p)
  /\ x.pc = "create" =>
       IF x.op = "seal" THEN x.digest = None
                        ELSE x.op = "seal_pcr" /\ x.digest = x.asked /\ PastValue(x.asked, x.index, p)
Unsealing(x, l, p) ==
  /\ x.pc \in {"load", "session", "policy", "unseal"} =>
       x.op \in Unseals /\ x.blob.index = Bound(x.op, x.index)
  /\ x.pc \in {"session", "policy", "unseal"} => l[x.item].policy = x.blob.policy
  /\ x.pc = "unseal" /\ x.op # "unseal" =>
       /\ l[x.session].policy = <<x.index, l[x.session].at[x.index]>>
       /\ x.excused \/ l[x.session].at = p

(* When it has returned. *)
Outcome(x, p) ==
  /\ x.pc # "idle" => x.result = <<>>
  /\ Len(x.result) = 3 /\ x.result[2].index # None =>
       x.result[2].made = <<x.result[2].index, x.result[3][x.result[2].index]>>
  /\ x.result = <<"failed">> /\ ~x.excused =>
       /\ x.op \in Unseals
       /\ x.blob.index = Bound(x.op, x.index) =>
            x.op = "unseal_pcr" /\ \E v \in 0..(p[x.index] - 1) : x.blob.made = <<x.index, v>>

Sound(x, l, p, B) == About(x, B) /\ Sealing(x, l, p) /\ Unsealing(x, l, p) /\ Outcome(x, p)

SealInv ==
  /\ TpmInv
  /\ pcr \in [Indexes -> Nat]
  /\ \A b \in blobs : BlobSound(b, pcr)
  /\ \A c \in Contexts : Sound(ctx[c], live, pcr, blobs)

(* What a context relies on in the TPM are handles it holds. *)
LEMMA SoundWhile ==
  ASSUME NEW x, NEW l, NEW m, NEW p, NEW B, NEW C, B \subseteq C, Sound(x, l, p, B),
         \A h \in Named(x) : m[h] = l[h]
  PROVE  Sound(x, m, p, C)
<1>1. About(x, C)  BY Zenon DEF Sound, About
<1>2. Sealing(x, m, p)
  <2>1. x.pc = "digest" => x.session \in Named(x)  BY Zenon DEF Named
  <2> QED  BY <2>1, Zenon DEF Sound, Sealing
<1>3. Unsealing(x, m, p)
  <2>1. x.pc \in {"session", "policy", "unseal"} => x.item \in Named(x)  BY Zenon DEF Named
  <2>2. x.pc = "unseal" /\ x.op # "unseal" => x.session \in Named(x)  BY Zenon DEF Named
  <2> QED  BY <2>1, <2>2, Zenon DEF Sound, Unsealing
<1> QED  BY <1>1, <1>2, <1>3, Zenon DEF Sound

(* A step of context c disturbs no other context. *)
LEMMA OthersSound ==
  ASSUME SealInv, TpmInv', NEW c \in Contexts, NEW y, ctx' = [ctx EXCEPT ![c] = y],
         \A h \in Handles \ Owned(c) : live[h].owner # None => live'[h] = live[h],
         pcr' = pcr, blobs \subseteq blobs', \A b \in blobs' : BlobSound(b, pcr),
         Sound(y, live', pcr, blobs')
  PROVE  SealInv'
<1>1. ASSUME NEW d \in Contexts PROVE Sound(ctx'[d], live', pcr', blobs')
  <2>1. CASE d = c  BY <2>1, Zenon DEF SealInv, TpmInv
  <2>2. CASE d # c
    <3>1. ctx'[d] = ctx[d]  BY <2>2, Zenon DEF SealInv, TpmInv
    <3>2. Named(ctx[d]) \subseteq Owned(d)  BY Zenon DEF SealInv, TpmInv, Covered, Held
    <3>3. \A h \in Named(ctx[d]) : live'[h] = live[h]  BY <2>2, <3>2, NoneAssumption, Zenon DEF Owned
    <3>4. Sound(ctx[d], live, pcr, blobs)  BY Zenon DEF SealInv
    <3> QED  BY <3>1, <3>3, <3>4, SoundWhile, Zenon
  <2> QED  BY <2>1, <2>2, Zenon
<1> QED  BY <1>1, Zenon DEF SealInv

(* A context in a call. *)
LEMMA InCall ==
  ASSUME SealInv, NEW c \in Contexts, NEW pc, Doing(c, pc), pc # "idle"
  PROVE  /\ DOMAIN ctx[c] = Fields /\ ctx[c].pc = pc /\ ctx[c].result = <<>>
         /\ ctx[c].index \in Indexes /\ ctx[c].op \in Seals \cup Unseals
         /\ ctx[c].op \in Unseals => ctx[c].blob \in blobs
         /\ Sealing(ctx[c], live, pcr) /\ Unsealing(ctx[c], live, pcr)
         /\ LiveShape /\ pcr \in [Indexes -> Nat]
<1>1. DOMAIN ctx[c] = Fields /\ ctx[c].pc = pc /\ LiveShape  BY Ready, Zenon DEF SealInv
<1>2. Sound(ctx[c], live, pcr, blobs) /\ pcr \in [Indexes -> Nat]  BY Zenon DEF SealInv
<1> QED  BY <1>1, <1>2, Zenon DEF Sound, About, Outcome

(* A call that returns without data, its failure excused. *)
LEMMA ReturnsSound ==
  ASSUME NEW y, NEW l, NEW p, NEW B, y.pc = "idle",
         y.result = <<"sealed">> \/ (y.result = <<"failed">> /\ y.excused),
         y.index \in Indexes, y.op \in Seals \cup Unseals, y.op \in Unseals => y.blob \in B
  PROVE  Sound(y, l, p, B)
<1>1. Len(y.result) # 3 /\ (y.result = <<"failed">> => y.excused)
  <2>1. Len(<<"sealed">>) = 1 /\ Len(<<"failed">>) = 1 /\ <<"sealed">> # <<"failed">>  BY Zenon
  <2> QED  BY <2>1
<1> QED  BY <1>1, Zenon DEF Sound, About, Sealing, Unsealing, Outcome

LEMMA FailsExcused ==
  ASSUME SealInv, NEW c \in Contexts, NEW pc, Doing(c, pc), pc # "idle", NEW flush, NEW l, NEW p
  PROVE  LET y == Fail(ctx[c], flush)
         IN  /\ Sound(Excuse(y), l, p, blobs) /\ Sound(Excuse(Excuse(y)), l, p, blobs)
             /\ Sound(Harm(y), l, p, blobs)
<1> DEFINE x == ctx[c]
           y == Fail(x, flush)
           e == Excuse(y)
           f == Excuse(e)
           g == Harm(y)
<1>1. /\ DOMAIN x = Fields /\ x.index \in Indexes /\ x.op \in Seals \cup Unseals
      /\ x.op \in Unseals => x.blob \in blobs
  BY InCall, Zenon
<1> HIDE DEF x
<1>2. /\ y.pc = "idle" /\ y.result = <<"failed">> /\ y.index = x.index /\ y.op = x.op
      /\ y.blob = x.blob /\ DOMAIN y = Fields
  BY <1>1, SMTT(30), Zenon DEF Fail, Return, Fields
<1> HIDE DEF y
<1>3. /\ e.pc = "idle" /\ e.result = <<"failed">> /\ e.index = x.index /\ e.op = x.op
      /\ e.blob = x.blob /\ e.excused /\ DOMAIN e = Fields
      /\ g.pc = "idle" /\ g.result = <<"failed">> /\ g.index = x.index /\ g.op = x.op
      /\ g.blob = x.blob /\ g.excused
  BY <1>2, Zenon DEF Excuse, Harm, Fields
<1> HIDE DEF e, g
<1>4. /\ f.pc = "idle" /\ f.result = <<"failed">> /\ f.index = x.index /\ f.op = x.op
      /\ f.blob = x.blob /\ f.excused
  BY <1>3, Zenon DEF Excuse, Fields
<1> HIDE DEF f
<1>5. Sound(e, l, p, blobs) /\ Sound(f, l, p, blobs) /\ Sound(g, l, p, blobs)
  BY <1>1, <1>3, <1>4, ReturnsSound, Zenon
<1> QED  BY <1>5, Zenon DEF e, f, g, y, x

(* An excuse takes nothing away. *)
LEMMA ExcuseSound ==
  ASSUME NEW x, NEW l, NEW p, NEW B, DOMAIN x = Fields, Sound(x, l, p, B)
  PROVE  Sound(Excuse(x), l, p, B) /\ Sound(Harm(x), l, p, B)
<1> DEFINE Same(y) == /\ y.pc = x.pc /\ y.op = x.op /\ y.index = x.index /\ y.blob = x.blob
                      /\ y.session = x.session /\ y.item = x.item /\ y.digest = x.digest
                      /\ y.asked = x.asked /\ y.result = x.result /\ y.excused
<1>1. Same(Excuse(x)) /\ Same(Harm(x))  BY Zenon DEF Excuse, Harm, Fields
<1>2. ASSUME NEW y, Same(y) PROVE Sound(y, l, p, B)
  <2> USE <1>2
  <2>1. About(y, B) /\ Sealing(y, l, p)  BY Zenon DEF Sound, About, Sealing
  <2>2. Unsealing(y, l, p)  BY Zenon DEF Sound, Unsealing
  <2>3. Outcome(y, p)  BY Zenon DEF Sound, Outcome
  <2> QED  BY <2>1, <2>2, <2>3, Zenon DEF Sound
<1> HIDE DEF Same
<1> QED  BY <1>1, <1>2, Zenon

LEMMA RefusedSound ==
  ASSUME SealInv, TpmInv', NEW c \in Contexts, NEW ok, NEW bad, Refused(c, ok, bad),
         UNCHANGED <<pcr, blobs>>, ok => Sound(Excuse(bad), live, pcr, blobs),
         ~ok => Sound(bad, live, pcr, blobs)
  PROVE  SealInv'
<1> DEFINE y == IF ok THEN Excuse(bad) ELSE bad
<1>1. ctx' = [ctx EXCEPT ![c] = y] /\ live' = live  BY Zenon DEF Refused
<1>2. Sound(y, live, pcr, blobs)  BY Zenon
<1>3. \A b \in blobs : BlobSound(b, pcr)  BY Zenon DEF SealInv
<1> HIDE DEF y
<1>4. /\ Sound(y, live', pcr, blobs') /\ pcr' = pcr /\ blobs \subseteq blobs'
      /\ \A b \in blobs' : BlobSound(b, pcr)
      /\ \A h \in Handles \ Owned(c) : live[h].owner # None => live'[h] = live[h]
  BY <1>1, <1>2, <1>3, Zenon
<1> QED  BY <1>1, <1>4, OthersSound, Zenon

LEMMA AsksSound ==
  ASSUME SealInv, TpmInv', NEW c \in Contexts, NEW ok, NEW good, NEW bad, Asks(c, ok, good, bad),
         ok => Sound(good, live, pcr, blobs) /\ Sound(Excuse(bad), live, pcr, blobs),
         ~ok => Sound(bad, live, pcr, blobs)
  PROVE  SealInv'
<1>1. UNCHANGED <<pcr, blobs>>  BY Zenon DEF Asks
<1>2. CASE Succeeds(c, ok, good) /\ UNCHANGED <<persistent, live>>
  <2>1. \A b \in blobs : BlobSound(b, pcr)  BY Zenon DEF SealInv
  <2>2. Sound(good, live', pcr, blobs') /\ live' = live /\ pcr' = pcr /\ blobs' = blobs
    BY <1>1, <1>2, Zenon DEF Succeeds
  <2>3. ctx' = [ctx EXCEPT ![c] = good]  BY <1>2, Zenon DEF Succeeds
  <2> QED  BY <2>1, <2>2, <2>3, OthersSound, Zenon
<1>3. CASE Refused(c, ok, bad)  BY <1>1, <1>3, RefusedSound, Zenon
<1> QED  BY <1>2, <1>3, Zenon DEF Asks

(* A command that makes a handle: the context it leads to, good, is sound  *)
(* in the TPM with that handle.                                            *)
LEMMA CreatesSound ==
  ASSUME SealInv, TpmInv', NEW c \in Contexts, NEW pc, Doing(c, pc), pc # "idle",
         NEW policy, NEW good, NEW flush, UNCHANGED <<pcr, blobs>>,
         ASSUME Fresh \in Handles, live[Fresh].owner = None,
                live' = [live EXCEPT ![Fresh] = [owner |-> c, policy |-> policy, at |-> None]]
         PROVE  Sound(good, live', pcr, blobs),
         \/ /\ Succeeds(c, Room # {}, good)
            /\ live' = [live EXCEPT ![Fresh] = [owner |-> c, policy |-> policy, at |-> None]]
         \/ Refused(c, Room # {}, IF Room # {} THEN Fail(ctx[c], flush)
                                               ELSE Excuse(Fail(ctx[c], flush)))
         \/ /\ AnswerLost(c, Room # {}, Harm(Fail(ctx[c], flush)))
            /\ live' = [live EXCEPT ![Fresh] = [owner |-> c, policy |-> policy, at |-> None]]
  PROVE  SealInv'
<1> DEFINE made == [live EXCEPT ![Fresh] = [owner |-> c, policy |-> policy, at |-> None]]
           bad == Fail(ctx[c], flush)
<1>1. Room # {} => Fresh \in Handles /\ live[Fresh].owner = None  BY Zenon DEF Room, Fresh
<1>2. LiveShape /\ \A b \in blobs : BlobSound(b, pcr)  BY Zenon DEF SealInv, TpmInv
<1> USE <1>2
<1>3. Room # {} /\ live' = made =>
        \A h \in Handles \ Owned(c) : live[h].owner # None => live'[h] = live[h]
  BY <1>1, Zenon DEF LiveShape
<1>4. /\ Sound(Excuse(bad), live, pcr, blobs) /\ Sound(Excuse(Excuse(bad)), live, pcr, blobs)
      /\ Sound(Harm(bad), live', pcr, blobs) /\ Sound(Excuse(bad), live, pcr, blobs)
  BY FailsExcused, Zenon
<1> USE <1>4
<1> HIDE DEF bad
<1>5. CASE Succeeds(c, Room # {}, good) /\ live' = made
  <2>1. Sound(good, live', pcr, blobs)  BY <1>1, <1>5, Zenon DEF Succeeds
  <2>2. /\ ctx' = [ctx EXCEPT ![c] = good] /\ Sound(good, live', pcr, blobs')
        /\ pcr' = pcr /\ blobs' = blobs
        /\ \A h \in Handles \ Owned(c) : live[h].owner # None => live'[h] = live[h]
    BY <1>3, <1>5, <2>1, Zenon DEF Succeeds
  <2> QED  BY <2>2, OthersSound, Zenon
<1>6. CASE Refused(c, Room # {}, IF Room # {} THEN bad ELSE Excuse(bad))
  <2>1. CASE Room # {}
    <3>1. Refused(c, Room # {}, bad)  BY <1>6, <2>1, Zenon
    <3> QED  BY <2>1, <3>1, RefusedSound, Zenon
  <2>2. CASE Room = {}
    <3>1. Refused(c, Room # {}, Excuse(bad))  BY <1>6, <2>2, Zenon
    <3> QED  BY <2>2, <3>1, RefusedSound, Zenon
  <2> QED  BY <2>1, <2>2, Zenon
<1>7. CASE AnswerLost(c, Room # {}, Harm(bad)) /\ live' = made
  <2>1. /\ ctx' = [ctx EXCEPT ![c] = Harm(bad)] /\ Sound(Harm(bad), live', pcr, blobs')
        /\ pcr' = pcr /\ blobs' = blobs
        /\ \A h \in Handles \ Owned(c) : live[h].owner # None => live'[h] = live[h]
    BY <1>3, <1>7, Zenon DEF AnswerLost
  <2> QED  BY <2>1, OthersSound, Zenon
<1> QED  BY <1>5, <1>6, <1>7, Zenon DEF bad

---------------------------------------------------------------------------
(* Every command again. *)

(* With the primary key at hand, a blob that does not fit is refused, and  *)
(* what goes on is what the call is about.                                 *)
LEMMA WithPrimarySound ==
  ASSUME SealInv, NEW c \in Contexts, NEW pc, Doing(c, pc), pc \in {"public", "evict"},
         NEW y, \A f \in Fields \ {"todo"} : y[f] = WithPrimary(ctx[c])[f]
  PROVE  Sound(y, live, pcr, blobs)
<1> DEFINE x == ctx[c]
<1>1. pc # "idle"  BY Zenon
<1>2. /\ DOMAIN x = Fields /\ x.pc = pc /\ x.result = <<>> /\ x.index \in Indexes
      /\ x.op \in Seals \cup Unseals /\ (x.op \in Unseals => x.blob \in blobs) /\ x.digest = None
  BY <1>1, InCall, Zenon DEF Sealing
<1> USE <1>2
<1> DEFINE w == WithPrimary(x)
<1> HIDE DEF x
<1>3. /\ y.op = w.op /\ y.index = w.index /\ y.blob = w.blob /\ y.digest = w.digest
      /\ y.pc = w.pc /\ y.result = w.result
  BY Zenon DEF Fields, x
<1> USE <1>3
<1>4. CASE x.op \in Seals
  <2>1. /\ w.pc = (IF x.op = "seal" THEN "create" ELSE "trial") /\ w.result = <<>>
        /\ w.op = x.op /\ w.index = x.index /\ w.blob = x.blob /\ w.digest = None
    BY <1>4, Zenon DEF WithPrimary, Seals, Fields
  <2> USE <2>1
  <2> HIDE DEF w
  <2>2. About(y, blobs)  BY Zenon DEF About
  <2>3. Sealing(y, live, pcr) /\ Unsealing(y, live, pcr)
    BY <1>4, Zenon DEF Sealing, Unsealing, Seals
  <2>4. Outcome(y, pcr)  BY DEF Outcome
  <2> QED  BY <2>2, <2>3, <2>4, Zenon DEF Sound
<1>5. CASE x.op \in Unseals /\ x.blob.index = Bound(x.op, x.index)
  <2>1. /\ w.pc = "load" /\ w.result = <<>>
        /\ w.op = x.op /\ w.index = x.index /\ w.blob = x.blob
    BY <1>5, Zenon DEF WithPrimary, Unseals, Fields
  <2> USE <2>1
  <2> HIDE DEF w
  <2>2. About(y, blobs)  BY Zenon DEF About
  <2>3. Sealing(y, live, pcr) /\ Unsealing(y, live, pcr)
    BY <1>5, Zenon DEF Sealing, Unsealing
  <2>4. Outcome(y, pcr)  BY DEF Outcome
  <2> QED  BY <2>2, <2>3, <2>4, Zenon DEF Sound
<1>6. CASE x.op \in Unseals /\ x.blob.index # Bound(x.op, x.index)
  <2> DEFINE u == Fail(x, <<>>)
  <2>1. w = u  BY <1>6, Zenon DEF WithPrimary, Unseals
  <2> USE <2>1
  <2>2. /\ u.pc = "idle" /\ u.result = <<"failed">>
        /\ u.op = x.op /\ u.index = x.index /\ u.blob = x.blob
    BY Zenon DEF Fail, Return, Fields
  <2> USE <2>2
  <2> HIDE DEF w, u
  <2>3. About(y, blobs)  BY Zenon DEF About
  <2>4. Sealing(y, live, pcr) /\ Unsealing(y, live, pcr)
    BY Zenon DEF Sealing, Unsealing
  <2>5. Outcome(y, pcr)
    <3>1. y.pc = "idle" /\ y.result = <<"failed">> /\ Len(<<"failed">>) = 1  BY Zenon
    <3>2. y.op = x.op /\ y.index = x.index /\ y.blob = x.blob  BY Zenon
    <3> QED  BY <1>6, <3>1, <3>2 DEF Outcome
  <2> QED  BY <2>3, <2>4, <2>5, Zenon DEF Sound
<1> QED  BY <1>4, <1>5, <1>6, Zenon

LEMMA ReadPublicSound ==
  ASSUME SealInv, TpmInv', NEW c \in Contexts, ReadPublic(c)
  PROVE  SealInv'
<1> DEFINE x == ctx[c]
           good == WithPrimary(x)
           bad == [x EXCEPT !.pc = "primary"]
<1>1. Doing(c, "public")  BY Zenon DEF ReadPublic
<1>2. /\ DOMAIN x = Fields /\ x.pc = "public" /\ x.result = <<>> /\ x.index \in Indexes
      /\ x.op \in Seals \cup Unseals /\ (x.op \in Unseals => x.blob \in blobs) /\ x.digest = None
  BY <1>1, InCall, Zenon DEF Sealing
<1>3. Sound(good, live, pcr, blobs)  BY <1>1, WithPrimarySound, Zenon
<1>4. Sound(bad, live, pcr, blobs) /\ Sound(Excuse(bad), live, pcr, blobs)
  <2>1. /\ bad.pc = "primary" /\ bad.result = <<>> /\ bad.index = x.index /\ bad.op = x.op
        /\ bad.blob = x.blob /\ bad.digest = None /\ DOMAIN bad = Fields
    BY <1>2, Zenon DEF Fields
  <2> HIDE DEF bad
  <2>2. Sound(bad, live, pcr, blobs)
    BY <1>2, <2>1 DEF Sound, About, Sealing, Unsealing, Outcome
  <2> QED  BY <2>1, <2>2, ExcuseSound, Zenon
<1>5. Asks(c, Primary[c] \in persistent, good, bad)  BY Zenon DEF ReadPublic
<1> HIDE DEF good, bad
<1> QED  BY <1>3, <1>4, <1>5, AsksSound, Zenon

LEMMA EvictControlSound ==
  ASSUME SealInv, TpmInv', NEW c \in Contexts, EvictControl(c)
  PROVE  SealInv'
<1> DEFINE x == ctx[c]
           ok == Primary[c] \notin persistent
           good == [WithPrimary(x) EXCEPT !.todo = <<x.transient>>]
           bad == Excuse(Fail(x, <<x.transient>>))
<1>1. Doing(c, "evict")  BY Zenon DEF EvictControl
<1> USE <1>1
<1>2. Sound(good, live, pcr, blobs)
  <2>1. DOMAIN x = Fields  BY InCall, Zenon
  <2>2. DOMAIN WithPrimary(x) = Fields  BY <2>1, Zenon DEF WithPrimary, Fail, Return
  <2>3. \A f \in Fields \ {"todo"} : good[f] = WithPrimary(x)[f]  BY <2>2, Zenon
  <2> HIDE DEF good
  <2> QED  BY <2>3, WithPrimarySound, Zenon
<1>3. Sound(bad, live, pcr, blobs) /\ Sound(Excuse(bad), live, pcr, blobs)
  BY FailsExcused, Zenon
<1>4. /\ \/ Succeeds(c, ok, good) /\ UNCHANGED live
         \/ Refused(c, ok, bad)
         \/ AnswerLost(c, ok, bad) /\ UNCHANGED live
      /\ UNCHANGED <<pcr, blobs>>
  BY Zenon DEF EvictControl, FlushTransient
<1> USE <1>4
<1> HIDE DEF good, bad
<1>5. CASE live' = live /\ \E y \in {good, bad} : ctx' = [ctx EXCEPT ![c] = y]
  <2>1. PICK y \in {good, bad} : ctx' = [ctx EXCEPT ![c] = y]  BY <1>5, Zenon
  <2>2. \A b \in blobs : BlobSound(b, pcr)  BY Zenon DEF SealInv
  <2>3. /\ Sound(y, live', pcr, blobs') /\ pcr' = pcr /\ blobs \subseteq blobs'
        /\ \A b \in blobs' : BlobSound(b, pcr)
        /\ \A h \in Handles \ Owned(c) : live[h].owner # None => live'[h] = live[h]
    BY <1>2, <1>3, <1>5, <2>2, Zenon
  <2> QED  BY <2>1, <2>3, OthersSound, Zenon
<1>6. CASE Refused(c, ok, bad)  BY <1>3, <1>6, RefusedSound, Zenon
<1> QED  BY <1>5, <1>6, Zenon DEF Succeeds, AnswerLost

LEMMA CreatePrimarySound ==
  ASSUME SealInv, TpmInv', NEW c \in Contexts, CreatePrimary(c)
  PROVE  SealInv'
<1> DEFINE x == ctx[c]
           good == [x EXCEPT !.pc = "evict", !.transient = Fresh]
<1>1. Doing(c, "primary") /\ UNCHANGED <<pcr, blobs>>  BY Zenon DEF CreatePrimary, Creates
<1>2. /\ DOMAIN x = Fields /\ x.pc = "primary" /\ x.result = <<>> /\ x.index \in Indexes
      /\ x.op \in Seals \cup Unseals /\ (x.op \in Unseals => x.blob \in blobs) /\ x.digest = None
  BY <1>1, InCall, Zenon DEF Sealing
<1>3. /\ good.pc = "evict" /\ good.result = <<>> /\ good.index = x.index /\ good.op = x.op
      /\ good.blob = x.blob /\ good.digest = None
  BY <1>2, Zenon DEF Fields
<1>4. \/ /\ Succeeds(c, Room # {}, good)
         /\ live' = [live EXCEPT ![Fresh] = [owner |-> c, policy |-> None, at |-> None]]
      \/ Refused(c, Room # {}, IF Room # {} THEN Fail(ctx[c], <<>>)
                                            ELSE Excuse(Fail(ctx[c], <<>>)))
      \/ /\ AnswerLost(c, Room # {}, Harm(Fail(ctx[c], <<>>)))
         /\ live' = [live EXCEPT ![Fresh] = [owner |-> c, policy |-> None, at |-> None]]
  BY Zenon DEF CreatePrimary, Creates
<1> HIDE DEF good
<1>5. Sound(good, live', pcr, blobs)
  BY <1>2, <1>3 DEF Sound, About, Sealing, Unsealing, Outcome
<1> QED  BY <1>1, <1>4, <1>5, CreatesSound, Zenon

LEMMA StartTrialSessionSound ==
  ASSUME SealInv, TpmInv', NEW c \in Contexts, StartTrialSession(c)
  PROVE  SealInv'
<1> DEFINE x == ctx[c]
           good == [x EXCEPT !.pc = "trial_policy", !.session = Fresh]
<1>1. Doing(c, "trial") /\ UNCHANGED <<pcr, blobs>>  BY Zenon DEF StartTrialSession, Creates
<1>2. /\ DOMAIN x = Fields /\ x.pc = "trial" /\ x.result = <<>> /\ x.index \in Indexes
      /\ x.op = "seal_pcr" /\ x.op \in Seals \cup Unseals /\ (x.op \in Unseals => x.blob \in blobs)
  BY <1>1, InCall, Zenon DEF Sealing
<1>3. /\ good.pc = "trial_policy" /\ good.result = <<>> /\ good.index = x.index
      /\ good.op = x.op /\ good.blob = x.blob
  BY <1>2, Zenon DEF Fields
<1>4. \/ /\ Succeeds(c, Room # {}, good)
         /\ live' = [live EXCEPT ![Fresh] = [owner |-> c, policy |-> None, at |-> None]]
      \/ Refused(c, Room # {}, IF Room # {} THEN Fail(ctx[c], <<>>)
                                            ELSE Excuse(Fail(ctx[c], <<>>)))
      \/ /\ AnswerLost(c, Room # {}, Harm(Fail(ctx[c], <<>>)))
         /\ live' = [live EXCEPT ![Fresh] = [owner |-> c, policy |-> None, at |-> None]]
  BY Zenon DEF StartTrialSession, Creates
<1> HIDE DEF good
<1>5. Sound(good, live', pcr, blobs)
  BY <1>2, <1>3 DEF Sound, About, Sealing, Unsealing, Outcome
<1> QED  BY <1>1, <1>4, <1>5, CreatesSound, Zenon

LEMMA LoadSound ==
  ASSUME SealInv, TpmInv', NEW c \in Contexts, Load(c)
  PROVE  SealInv'
<1> DEFINE x == ctx[c]
           good == [x EXCEPT !.item = Fresh,
                             !.pc = IF x.op = "unseal" THEN "unseal" ELSE "session"]
<1>1. Doing(c, "load") /\ UNCHANGED <<pcr, blobs>>  BY Zenon DEF Load, Creates
<1>2. /\ DOMAIN x = Fields /\ x.pc = "load" /\ x.result = <<>> /\ x.index \in Indexes
      /\ x.op \in Unseals /\ x.blob \in blobs /\ x.blob.index = Bound(x.op, x.index) /\ LiveShape
  BY <1>1, InCall, Zenon DEF Unsealing
<1> USE <1>2
<1>3. /\ good.pc = (IF x.op = "unseal" THEN "unseal" ELSE "session") /\ good.result = <<>>
      /\ good.index = x.index /\ good.op = x.op /\ good.blob = x.blob /\ good.item = Fresh
  BY Zenon DEF Fields
<1>4. \/ /\ Succeeds(c, Room # {}, good)
         /\ live' = [live EXCEPT ![Fresh] = [owner |-> c, policy |-> x.blob.policy, at |-> None]]
      \/ Refused(c, Room # {}, IF Room # {} THEN Fail(ctx[c], <<>>)
                                            ELSE Excuse(Fail(ctx[c], <<>>)))
      \/ /\ AnswerLost(c, Room # {}, Harm(Fail(ctx[c], <<>>)))
         /\ live' = [live EXCEPT ![Fresh] = [owner |-> c, policy |-> x.blob.policy, at |-> None]]
  BY Zenon DEF Load, Creates
<1> HIDE DEF good
<1>5. ASSUME Fresh \in Handles, live[Fresh].owner = None,
             live' = [live EXCEPT ![Fresh] = [owner |-> c, policy |-> x.blob.policy, at |-> None]]
      PROVE  Sound(good, live', pcr, blobs)
  <2>1. live'[Fresh].policy = x.blob.policy  BY <1>5, Zenon DEF LiveShape
  <2>2. Unsealing(good, live', pcr)  BY <1>3, <2>1, Zenon DEF Unsealing
  <2>3. About(good, blobs) /\ Sealing(good, live', pcr) /\ Outcome(good, pcr)
    BY <1>3 DEF About, Sealing, Outcome
  <2> QED  BY <2>2, <2>3, Zenon DEF Sound
<1> QED  BY <1>1, <1>4, <1>5, CreatesSound, Zenon

LEMMA StartSessionSound ==
  ASSUME SealInv, TpmInv', NEW c \in Contexts, StartSession(c)
  PROVE  SealInv'
<1> DEFINE x == ctx[c]
           good == [x EXCEPT !.pc = "policy", !.session = Fresh]
<1>1. Doing(c, "session") /\ UNCHANGED <<pcr, blobs>>  BY Zenon DEF StartSession, Creates
<1>2. /\ DOMAIN x = Fields /\ x.pc = "session" /\ x.result = <<>> /\ x.index \in Indexes
      /\ x.op \in Unseals /\ x.blob \in blobs /\ x.blob.index = Bound(x.op, x.index)
      /\ live[x.item].policy = x.blob.policy /\ LiveShape
  BY <1>1, InCall, Zenon DEF Unsealing
<1> USE <1>2
<1>3. /\ good.pc = "policy" /\ good.result = <<>> /\ good.index = x.index
      /\ good.op = x.op /\ good.blob = x.blob /\ good.item = x.item
  BY Zenon DEF Fields
<1>4. \/ /\ Succeeds(c, Room # {}, good)
         /\ live' = [live EXCEPT ![Fresh] = [owner |-> c, policy |-> None, at |-> None]]
      \/ Refused(c, Room # {}, IF Room # {} THEN Fail(ctx[c], <<x.item>>)
                                            ELSE Excuse(Fail(ctx[c], <<x.item>>)))
      \/ /\ AnswerLost(c, Room # {}, Harm(Fail(ctx[c], <<x.item>>)))
         /\ live' = [live EXCEPT ![Fresh] = [owner |-> c, policy |-> None, at |-> None]]
  BY Zenon DEF StartSession, Creates
<1> HIDE DEF good
<1>5. ASSUME Fresh \in Handles, live[Fresh].owner = None,
             live' = [live EXCEPT ![Fresh] = [owner |-> c, policy |-> None, at |-> None]]
      PROVE  Sound(good, live', pcr, blobs)
  <2>1. x.item \in Owned(c)  BY Zenon DEF SealInv, TpmInv, Covered, Held, Named
  <2>2. live'[x.item] = live[x.item]  BY <1>5, <2>1, NoneAssumption, Zenon DEF LiveShape, Owned
  <2>3. Unsealing(good, live', pcr)  BY <1>3, <2>2, Zenon DEF Unsealing
  <2>4. About(good, blobs) /\ Sealing(good, live', pcr) /\ Outcome(good, pcr)
    BY <1>3 DEF About, Sealing, Outcome
  <2> QED  BY <2>3, <2>4, Zenon DEF Sound
<1> QED  BY <1>1, <1>4, <1>5, CreatesSound, Zenon

(* The session of context c takes the digest of its PCR. *)
LEMMA PolicyPCRSound ==
  ASSUME SealInv, TpmInv', NEW c \in Contexts, NEW pc, Doing(c, pc),
         pc \in {"trial_policy", "policy"}, NEW good, NEW flush,
         PolicyPCR(c, good, Fail(ctx[c], flush)),
         ASSUME live'[ctx[c].session].policy = Digest(ctx[c].index),
                live'[ctx[c].session].at = pcr,
                \A h \in Handles : h # ctx[c].session => live'[h] = live[h]
         PROVE  Sound(good, live', pcr, blobs)
  PROVE  SealInv'
<1> DEFINE s == ctx[c].session
           bad == Fail(ctx[c], flush)
<1>1. LiveShape /\ \A b \in blobs : BlobSound(b, pcr)  BY Zenon DEF SealInv, TpmInv
<1>2. UNCHANGED <<pcr, blobs>>  BY Zenon DEF PolicyPCR
<1>3. s \in Owned(c)
  <2>1. ctx[c].pc = pc  BY Zenon DEF Doing
  <2> QED  BY <2>1, Zenon DEF SealInv, TpmInv, Covered, Held, Named
<1>4. CASE /\ Succeeds(c, TRUE, good)
           /\ live' = [live EXCEPT ![s].policy = Digest(ctx[c].index), ![s].at = pcr]
  <2>1. /\ live'[s].policy = Digest(ctx[c].index) /\ live'[s].at = pcr
        /\ \A h \in Handles : h # s => live'[h] = live[h]
    BY <1>1, <1>3, <1>4, Zenon DEF LiveShape, Owned
  <2>2. Sound(good, live', pcr, blobs)  BY <2>1, Zenon
  <2>3. /\ ctx' = [ctx EXCEPT ![c] = good] /\ Sound(good, live', pcr, blobs')
        /\ pcr' = pcr /\ blobs \subseteq blobs' /\ \A b \in blobs' : BlobSound(b, pcr)
        /\ \A h \in Handles \ Owned(c) : live[h].owner # None => live'[h] = live[h]
    BY <1>1, <1>2, <1>3, <1>4, <2>1, <2>2, Zenon DEF Succeeds
  <2> QED  BY <2>3, OthersSound, Zenon
<1>5. CASE Refused(c, TRUE, bad)
  <2>1. Sound(Excuse(bad), live, pcr, blobs)  BY FailsExcused, Zenon
  <2> HIDE DEF bad
  <2> QED  BY <1>2, <1>5, <2>1, RefusedSound, Zenon
<1> QED  BY <1>4, <1>5, Zenon DEF PolicyPCR

LEMMA TrialPolicySound ==
  ASSUME SealInv, TpmInv', NEW c \in Contexts, TrialPolicy(c)
  PROVE  SealInv'
<1> DEFINE x == ctx[c]
           good == [x EXCEPT !.pc = "digest", !.asked = Digest(x.index)]
<1>1. Doing(c, "trial_policy")  BY Zenon DEF TrialPolicy
<1>2. /\ DOMAIN x = Fields /\ x.result = <<>> /\ x.index \in Indexes /\ x.op = "seal_pcr"
      /\ pcr \in [Indexes -> Nat]
  BY <1>1, InCall, Zenon DEF Sealing
<1> USE <1>2
<1>3. /\ good.pc = "digest" /\ good.result = <<>> /\ good.index = x.index /\ good.op = x.op
      /\ good.session = x.session /\ good.asked = Digest(x.index)
  BY Zenon DEF Fields
<1>4. PolicyPCR(c, good, Fail(ctx[c], <<x.session>>))  BY Zenon DEF TrialPolicy
<1> HIDE DEF good
<1>5. ASSUME live'[x.session].policy = Digest(x.index)
      PROVE  Sound(good, live', pcr, blobs)
  <2>1. PastValue(Digest(x.index), x.index, pcr)  BY DEF PastValue, Digest
  <2>2. Sealing(good, live', pcr)  BY <1>3, <1>5, <2>1, Zenon DEF Sealing
  <2>3. About(good, blobs) /\ Unsealing(good, live', pcr) /\ Outcome(good, pcr)
    BY <1>3 DEF About, Unsealing, Outcome, Seals, Unseals
  <2> QED  BY <2>2, <2>3, Zenon DEF Sound
<1> QED  BY <1>1, <1>4, <1>5, PolicyPCRSound, Zenon

LEMMA SessionPolicySound ==
  ASSUME SealInv, TpmInv', NEW c \in Contexts, SessionPolicy(c)
  PROVE  SealInv'
<1> DEFINE x == ctx[c]
           good == [x EXCEPT !.pc = "unseal"]
<1>1. Doing(c, "policy")  BY Zenon DEF SessionPolicy
<1>2. /\ DOMAIN x = Fields /\ x.pc = "policy" /\ x.result = <<>> /\ x.index \in Indexes
      /\ x.op \in Unseals /\ x.blob \in blobs /\ x.blob.index = Bound(x.op, x.index)
      /\ live[x.item].policy = x.blob.policy
  BY <1>1, InCall, Zenon DEF Unsealing
<1> USE <1>2
<1>3. /\ good.pc = "unseal" /\ good.result = <<>> /\ good.index = x.index /\ good.op = x.op
      /\ good.blob = x.blob /\ good.session = x.session /\ good.item = x.item
  BY Zenon DEF Fields
<1>4. PolicyPCR(c, good, Fail(ctx[c], <<x.session, x.item>>))  BY Zenon DEF SessionPolicy
<1> HIDE DEF good
<1>5. ASSUME live'[x.session].policy = Digest(x.index), live'[x.session].at = pcr,
             \A h \in Handles : h # x.session => live'[h] = live[h]
      PROVE  Sound(good, live', pcr, blobs)
  <2> USE <1>5
  <2>1. x.item \in Handles /\ x.item # x.session
    <3>1. Covered(c) /\ Shape(x)  BY Zenon DEF SealInv, TpmInv, Covered
    <3>2. x.item \in Owned(c)  BY <3>1, Zenon DEF Covered, Held, Named
    <3> QED  BY <3>1, <3>2, Zenon DEF Shape, Owned
  <2>2. live'[x.item].policy = x.blob.policy  BY <2>1, Zenon
  <2>3. live'[x.session].policy = <<x.index, live'[x.session].at[x.index]>>  BY Zenon DEF Digest
  <2>4. Unsealing(good, live', pcr)  BY <1>3, <2>2, <2>3, Zenon DEF Unsealing
  <2>5. About(good, blobs) /\ Sealing(good, live', pcr) /\ Outcome(good, pcr)
    BY <1>3 DEF About, Sealing, Outcome
  <2> QED  BY <2>4, <2>5, Zenon DEF Sound
<1> QED  BY <1>1, <1>4, <1>5, PolicyPCRSound, Zenon

LEMMA PolicyGetDigestSound ==
  ASSUME SealInv, TpmInv', NEW c \in Contexts, PolicyGetDigest(c)
  PROVE  SealInv'
<1> DEFINE x == ctx[c]
           good == [x EXCEPT !.pc = "create", !.digest = live[x.session].policy,
                             !.todo = <<x.session>>]
           bad == Fail(x, <<x.session>>)
<1>1. Doing(c, "digest")  BY Zenon DEF PolicyGetDigest
<1>2. /\ DOMAIN x = Fields /\ x.result = <<>> /\ x.index \in Indexes /\ x.op = "seal_pcr"
      /\ live[x.session].policy = x.asked /\ PastValue(x.asked, x.index, pcr)
  BY <1>1, InCall, Zenon DEF Sealing
<1>3. /\ good.pc = "create" /\ good.result = <<>> /\ good.index = x.index /\ good.op = x.op
      /\ good.asked = x.asked /\ good.digest = x.asked
  BY <1>2, Zenon DEF Fields
<1>4. Asks(c, TRUE, good, bad)  BY Zenon DEF PolicyGetDigest
<1>5. Sound(Excuse(bad), live, pcr, blobs)  BY <1>1, FailsExcused, Zenon
<1> HIDE DEF good, bad
<1>6. Sound(good, live, pcr, blobs)
  BY <1>2, <1>3 DEF Sound, About, Sealing, Unsealing, Outcome, Seals, Unseals
<1> QED  BY <1>4, <1>5, <1>6, AsksSound, Zenon

LEMMA CreateSound ==
  ASSUME SealInv, TpmInv', NEW c \in Contexts, Create(c)
  PROVE  SealInv'
<1> DEFINE x == ctx[c]
           good == Return(x, <<"sealed">>, <<>>)
           bad == Fail(x, <<>>)
           b == [index |-> Bound(x.op, x.index), policy |-> x.digest, made |-> x.asked]
<1>1. Doing(c, "create")  BY Zenon DEF Create
<1>2. /\ DOMAIN x = Fields /\ x.index \in Indexes /\ x.op \in Seals
      /\ x.op = "seal" => x.digest = None
      /\ x.op = "seal_pcr" => x.digest = x.asked /\ PastValue(x.asked, x.index, pcr)
  BY <1>1, InCall, Zenon DEF Sealing, Seals
<1> USE <1>2
<1>3. BlobSound(b, pcr)
  <2>1. CASE x.op = "seal"  BY <2>1, Zenon DEF BlobSound, Bound
  <2>2. CASE x.op = "seal_pcr"
    <3>1. b.index = x.index /\ b.policy = b.made /\ b.made = x.asked  BY <2>2, Zenon DEF Bound
    <3> HIDE DEF b
    <3> QED  BY <2>2, <3>1, NoneAssumption, Zenon DEF BlobSound
  <2> QED  BY <2>1, <2>2, Zenon DEF Seals
<1>4. /\ good.pc = "idle" /\ good.result = <<"sealed">> /\ good.index = x.index /\ good.op = x.op
  BY Zenon DEF Return, Fields
<1>5. \/ Succeeds(c, TRUE, good) /\ blobs' = blobs \cup {b} /\ live' = live /\ pcr' = pcr
      \/ Refused(c, TRUE, bad) /\ UNCHANGED <<pcr, blobs>>
  BY Zenon DEF Create, AuthPolicy
<1>6. Sound(Excuse(bad), live, pcr, blobs)  BY <1>1, FailsExcused, Zenon
<1> HIDE DEF good, bad, b
<1>7. CASE Succeeds(c, TRUE, good) /\ blobs' = blobs \cup {b} /\ live' = live /\ pcr' = pcr
  <2>1. Sound(good, live', pcr, blobs')
    <3>1. good.op \in Seals \cup Unseals /\ good.op \notin Unseals
      BY <1>4, Zenon DEF Seals, Unseals
    <3> QED  BY <1>4, <3>1, ReturnsSound, Zenon
  <2>2. \A d \in blobs : BlobSound(d, pcr)  BY Zenon DEF SealInv
  <2>3. /\ ctx' = [ctx EXCEPT ![c] = good] /\ blobs \subseteq blobs' /\ pcr' = pcr
        /\ \A d \in blobs' : BlobSound(d, pcr)
        /\ \A h \in Handles \ Owned(c) : live[h].owner # None => live'[h] = live[h]
    BY <1>3, <1>7, <2>2, Zenon DEF Succeeds
  <2> QED  BY <2>1, <2>3, OthersSound, Zenon
<1>8. CASE Refused(c, TRUE, bad) /\ UNCHANGED <<pcr, blobs>>
  BY <1>6, <1>8, RefusedSound, Zenon
<1> QED  BY <1>5, <1>7, <1>8, Zenon

(* The TPM hands the data out exactly when the object has no policy, or    *)
(* the session's digest is the object's and the PCRs have not changed.     *)
LEMMA UnsealSound ==
  ASSUME SealInv, TpmInv', NEW c \in Contexts, Unseal(c)
  PROVE  SealInv'
<1> DEFINE x == ctx[c]
           i == x.index
           ok == IF x.op = "unseal" THEN live[x.item].policy = None
                                    ELSE /\ live[x.session].policy = live[x.item].policy
                                         /\ live[x.session].at = pcr
           flush == IF x.op = "unseal" THEN <<x.item>> ELSE <<x.session, x.item>>
           result == <<"data", x.blob, pcr>>
           good == Return(x, result, flush)
           bad == Fail(x, flush)
<1>1. Doing(c, "unseal")  BY Zenon DEF Unseal
<1>2. /\ DOMAIN x = Fields /\ i \in Indexes /\ x.op \in Unseals /\ x.blob \in blobs
      /\ x.blob.index = Bound(x.op, i) /\ live[x.item].policy = x.blob.policy
      /\ pcr \in [Indexes -> Nat]
      /\ x.op # "unseal" => /\ live[x.session].policy = <<i, live[x.session].at[i]>>
                            /\ x.excused \/ live[x.session].at = pcr
  BY <1>1, InCall, Zenon DEF Unsealing
<1> USE <1>2
<1>3. BlobSound(x.blob, pcr)  BY Zenon DEF SealInv
<1>4. x.op = "unseal" => x.blob.index = None /\ ok  BY <1>3, Zenon DEF Bound, BlobSound
<1>5. x.op # "unseal" =>
        /\ x.op = "unseal_pcr" /\ x.blob.index = i /\ x.blob.policy = x.blob.made
        /\ PastValue(x.blob.made, i, pcr)
  BY <1>3, NoneAssumption, Zenon DEF Bound, BlobSound, Unseals
<1> USE <1>5
<1>6. Asks(c, ok, good, bad)  BY Zenon DEF Unseal
<1>7. /\ good.pc = "idle" /\ good.result = result /\ good.index = i /\ good.op = x.op
      /\ good.blob = x.blob
  <2> HIDE DEF result, flush
  <2> QED  BY Zenon DEF Return, Fields
<1>8. /\ bad.pc = "idle" /\ bad.result = <<"failed">> /\ bad.index = i /\ bad.op = x.op
      /\ bad.blob = x.blob /\ bad.excused = x.excused
  <2> HIDE DEF flush
  <2> QED  BY Zenon DEF Fail, Return, Fields
<1> USE <1>8
<1>9. Sound(Excuse(bad), live, pcr, blobs)  BY <1>1, FailsExcused, Zenon
<1>10. Len(result) = 3 /\ result[2] = x.blob /\ result[3] = pcr /\ result # <<"failed">>
  BY Zenon
<1> HIDE DEF good, bad, result
<1>11. ASSUME ok PROVE Sound(good, live, pcr, blobs)
  <2>1. x.blob.index # None => x.blob.made = <<x.blob.index, pcr[x.blob.index]>>
    BY <1>4, <1>11, Zenon
  <2>2. Outcome(good, pcr)  BY <1>7, <1>10, <2>1, Zenon DEF Outcome
  <2>3. About(good, blobs) /\ Sealing(good, live, pcr) /\ Unsealing(good, live, pcr)
    BY <1>7, Zenon DEF About, Sealing, Unsealing
  <2> QED  BY <2>2, <2>3, Zenon DEF Sound
<1>12. ASSUME ~ok PROVE Sound(bad, live, pcr, blobs)
  <2>1. x.op = "unseal_pcr" /\ x.op # "unseal"  BY <1>4, <1>12, Zenon
  <2> USE <2>1
  <2>2. ~x.excused => \E v \in 0..(pcr[i] - 1) : x.blob.made = <<i, v>>
    <3> SUFFICES ASSUME ~x.excused PROVE \E v \in 0..(pcr[i] - 1) : x.blob.made = <<i, v>>
      BY Zenon
    <3>1. x.blob.made # <<i, pcr[i]>>  BY <1>12, Zenon
    <3>2. PICK v \in 0..pcr[i] : x.blob.made = <<i, v>>  BY Zenon DEF PastValue
    <3>3. v \in 0..(pcr[i] - 1)  BY <3>1, <3>2
    <3> QED  BY <3>2, <3>3, Zenon
  <2>3. Len(bad.result) # 3  OBVIOUS
  <2>4. bad.op \in Unseals /\ bad.op = "unseal_pcr"  BY Zenon
  <2>5. ~bad.excused => \E v \in 0..(pcr[bad.index] - 1) : bad.blob.made = <<bad.index, v>>
    BY <2>2, Zenon
  <2>6. Outcome(bad, pcr)  BY <2>3, <2>4, <2>5, Zenon DEF Outcome
  <2>7. About(bad, blobs) /\ Sealing(bad, live, pcr) /\ Unsealing(bad, live, pcr)
    BY Zenon DEF About, Sealing, Unsealing
  <2> QED  BY <2>6, <2>7, Zenon DEF Sound
<1> HIDE DEF ok
<1> QED  BY <1>6, <1>9, <1>11, <1>12, AsksSound, Zenon

LEMMA FlushSound ==
  ASSUME SealInv, TpmInv', NEW c \in Contexts, Flush(c)
  PROVE  SealInv'
<1> DEFINE x == ctx[c]
           h == Head(x.todo)
           y == [x EXCEPT !.todo = Tail(@)]
           z == Harm(y)
<1>1. Covered(c) /\ LiveShape /\ x.todo # <<>>  BY Zenon DEF SealInv, TpmInv, Flush
<1> USE <1>1
<1>2. Shape(x) /\ Held(x) \subseteq Owned(c) /\ DOMAIN x = Fields  BY Zenon DEF Covered, Shape
<1> USE <1>2
<1>3. h \in Flushing(x)
  <2>1. x.todo \in Seq(Handles)  BY Zenon DEF Shape
  <2>2. h = x.todo[1] /\ 1 \in 1..Len(x.todo)  BY <2>1
  <2> QED  BY <2>2, Zenon DEF Flushing
<1>4. h \in Owned(c) /\ h \notin Named(x)  BY <1>3, Zenon DEF Held, Shape
<1>5. /\ DOMAIN y = Fields /\ y.pc = x.pc /\ y.op = x.op /\ y.index = x.index /\ y.blob = x.blob
      /\ y.session = x.session /\ y.item = x.item /\ y.digest = x.digest /\ y.asked = x.asked
      /\ y.result = x.result /\ y.excused = x.excused
  BY Zenon DEF Fields
<1> USE <1>5
<1>6. /\ \/ Succeeds(c, TRUE, y) /\ live' = [live EXCEPT ![h] = Free]
         \/ Refused(c, TRUE, z)
      /\ UNCHANGED <<pcr, blobs>>
  BY Zenon DEF Flush
<1> USE <1>6
<1>7. Sound(x, live, pcr, blobs) /\ \A b \in blobs : BlobSound(b, pcr)  BY Zenon DEF SealInv
<1> USE <1>7
<1> HIDE DEF y, h
<1>8. ASSUME NEW l, Sound(x, l, pcr, blobs) PROVE Sound(y, l, pcr, blobs)
  <2>1. About(y, blobs) /\ Sealing(y, l, pcr)  BY <1>8, Zenon DEF Sound, About, Sealing
  <2>2. Unsealing(y, l, pcr) /\ Outcome(y, pcr)  BY <1>8, Zenon DEF Sound, Unsealing, Outcome
  <2> QED  BY <2>1, <2>2, Zenon DEF Sound
<1>9. CASE Succeeds(c, TRUE, y) /\ live' = [live EXCEPT ![h] = Free]
  <2>1. \A g \in Handles : g # h => live'[g] = live[g]  BY <1>9, Zenon DEF LiveShape
  <2>2. \A g \in Named(x) : live'[g] = live[g]  BY <1>4, <2>1, Zenon DEF Held, Owned
  <2>3. Sound(x, live', pcr, blobs)  BY <2>2, SoundWhile, Zenon
  <2>4. Sound(y, live', pcr, blobs)  BY <1>8, <2>3, Zenon
  <2>5. /\ ctx' = [ctx EXCEPT ![c] = y] /\ Sound(y, live', pcr, blobs')
        /\ pcr' = pcr /\ blobs \subseteq blobs' /\ \A b \in blobs' : BlobSound(b, pcr)
        /\ \A g \in Handles \ Owned(c) : live[g].owner # None => live'[g] = live[g]
    BY <1>4, <1>9, <2>1, <2>4, Zenon DEF Succeeds
  <2> QED  BY <2>5, OthersSound, Zenon
<1>10. CASE Refused(c, TRUE, z)
  <2>1. Sound(y, live, pcr, blobs)  BY <1>8, Zenon
  <2>2. Sound(z, live, pcr, blobs) /\ DOMAIN z = Fields
    BY <2>1, ExcuseSound, Zenon DEF Harm
  <2> HIDE DEF z
  <2>3. Sound(Excuse(z), live, pcr, blobs)  BY <2>2, ExcuseSound, Zenon
  <2> QED  BY <1>10, <2>3, RefusedSound, Zenon
<1> QED  BY <1>9, <1>10, Zenon

(* A context that is in no call and has no result. *)
LEMMA FreshSound ==
  ASSUME NEW y, NEW l, NEW p, NEW B, y.pc = "idle", y.result = <<>>
  PROVE  Sound(y, l, p, B)
<1> QED  BY Results DEF Sound, About, Sealing, Unsealing, Outcome

LEMMA OpenSound ==
  ASSUME SealInv, TpmInv', NEW c \in Contexts, Open(c)
  PROVE  SealInv'
<1> DEFINE y == [Closed EXCEPT !.open = TRUE]
<1>1. ctx' = [ctx EXCEPT ![c] = y] /\ live' = live /\ pcr' = pcr /\ blobs' = blobs  BY Zenon DEF Open
<1>2. y.pc = "idle" /\ y.result = <<>>  BY Zenon DEF Closed
<1> HIDE DEF y
<1>3. \A b \in blobs : BlobSound(b, pcr)  BY Zenon DEF SealInv
<1>4. Sound(y, live', pcr, blobs')  BY <1>2, FreshSound, Zenon
<1>5. /\ blobs \subseteq blobs' /\ \A b \in blobs' : BlobSound(b, pcr)
      /\ \A g \in Handles \ Owned(c) : live[g].owner # None => live'[g] = live[g]
  BY <1>1, <1>3, Zenon
<1> QED  BY <1>1, <1>4, <1>5, OthersSound, Zenon

LEMMA CleanupSound ==
  ASSUME SealInv, TpmInv', NEW c \in Contexts, Cleanup(c)
  PROVE  SealInv'
<1>1. /\ ctx' = [ctx EXCEPT ![c] = Closed] /\ pcr' = pcr /\ blobs' = blobs
      /\ live' = [h \in Handles |-> IF live[h].owner = c THEN Free ELSE live[h]]
  BY Zenon DEF Cleanup
<1>2. Closed.pc = "idle" /\ Closed.result = <<>>  BY Zenon DEF Closed
<1>3. \A b \in blobs : BlobSound(b, pcr)  BY Zenon DEF SealInv
<1>4. Sound(Closed, live', pcr, blobs')  BY <1>2, FreshSound, Zenon
<1>5. /\ blobs \subseteq blobs' /\ \A b \in blobs' : BlobSound(b, pcr)
      /\ \A g \in Handles \ Owned(c) : live[g].owner # None => live'[g] = live[g]
  BY <1>1, <1>3, Zenon DEF Owned
<1> QED  BY <1>1, <1>4, <1>5, OthersSound, Zenon

LEMMA CallSound ==
  ASSUME SealInv, TpmInv', NEW c \in Contexts, NEW op \in Seals \cup Unseals, NEW i \in Indexes,
         NEW b, Call(c, op, i, b), op \in Unseals => b \in blobs
  PROVE  SealInv'
<1> DEFINE y == [Closed EXCEPT !.open = TRUE, !.pc = "public", !.op = op,
                               !.index = i, !.blob = b, !.harmed = ctx[c].harmed]
<1>1. ctx' = [ctx EXCEPT ![c] = y] /\ live' = live /\ pcr' = pcr /\ blobs' = blobs  BY Zenon DEF Call
<1> USE <1>1
<1>2. /\ y.pc = "public" /\ y.result = <<>> /\ y.op = op /\ y.index = i /\ y.blob = b
      /\ y.digest = None
  BY Zenon DEF Closed
<1> USE <1>2
<1> HIDE DEF y
<1>3. \A d \in blobs : BlobSound(d, pcr)  BY Zenon DEF SealInv
<1>4. Sound(y, live', pcr, blobs')
  <2>1. About(y, blobs') /\ Sealing(y, live', pcr)  BY Zenon DEF About, Sealing
  <2>2. Unsealing(y, live', pcr)  BY Zenon DEF Unsealing
  <2>3. Outcome(y, pcr)
    BY Results DEF Outcome
  <2> QED  BY <2>1, <2>2, <2>3, Zenon DEF Sound
<1>5. /\ blobs \subseteq blobs' /\ \A d \in blobs' : BlobSound(d, pcr)
      /\ \A g \in Handles \ Owned(c) : live[g].owner # None => live'[g] = live[g]
  BY <1>3, Zenon
<1> QED  BY <1>4, <1>5, OthersSound, Zenon

LEMMA ExtendSound ==
  ASSUME SealInv, TpmInv', NEW i \in Indexes, Extend(i)
  PROVE  SealInv'
<1>1. /\ pcr' = [pcr EXCEPT ![i] = @ + 1] /\ live' = live /\ blobs' = blobs
      /\ ctx' = [c \in Contexts |-> IF ctx[c].pc = "idle" THEN ctx[c] ELSE Excuse(ctx[c])]
  BY Zenon DEF Extend
<1> USE <1>1
<1>2. pcr \in [Indexes -> Nat]  BY Zenon DEF SealInv
<1>3. /\ pcr' \in [Indexes -> Nat]
      /\ \A j \in Indexes : pcr[j] \in Nat /\ pcr'[j] \in Nat /\ pcr[j] <= pcr'[j]
      /\ \A d : \A j \in Indexes : PastValue(d, j, pcr) => PastValue(d, j, pcr')
  <2>1. pcr' \in [Indexes -> Nat]  BY <1>2
  <2>2. \A j \in Indexes : pcr[j] \in Nat /\ pcr'[j] \in Nat /\ pcr[j] <= pcr'[j]  BY <1>2
  <2>3. ASSUME NEW d, NEW j \in Indexes, PastValue(d, j, pcr) PROVE PastValue(d, j, pcr')
    <3>1. PICK v \in 0..pcr[j] : d = <<j, v>>  BY <2>3, Zenon DEF PastValue
    <3>2. v \in 0..pcr'[j]  BY <2>2
    <3> QED  BY <3>1, <3>2, Zenon DEF PastValue
  <2> QED  BY <2>1, <2>2, <2>3, Zenon
<1> USE <1>3
<1>4. ASSUME NEW b \in blobs' PROVE BlobSound(b, pcr')
  <2>1. BlobSound(b, pcr)  BY Zenon DEF SealInv
  <2> QED  BY <2>1, Zenon DEF BlobSound
<1>5. ASSUME NEW c \in Contexts PROVE Sound(ctx'[c], live', pcr', blobs')
  <2> DEFINE x == ctx[c]
  <2>1. Sound(x, live, pcr, blobs)  BY Zenon DEF SealInv
  <2> USE <2>1
  <2>2. CASE x.pc = "idle"
    <3> USE <2>2
    <3>1. ctx'[c] = x  BY Zenon
    <3> HIDE DEF x
    <3>2. About(x, blobs') /\ Sealing(x, live', pcr') /\ Unsealing(x, live', pcr')
      BY Zenon DEF Sound, About, Sealing, Unsealing
    <3>3. Outcome(x, pcr')
      <4>1. Outcome(x, pcr) /\ About(x, blobs)  BY Zenon DEF Sound
      <4> USE <4>1
      <4>2. ASSUME x.result = <<"failed">>, ~x.excused, x.blob.index = Bound(x.op, x.index)
            PROVE  /\ x.op = "unseal_pcr"
                   /\ \E v \in 0..(pcr'[x.index] - 1) : x.blob.made = <<x.index, v>>
        <5>1. x.result # <<>>
          BY <4>2, Results, Zenon
        <5>2. x.index \in Indexes  BY <5>1, Zenon DEF About
        <5>3. x.op = "unseal_pcr" /\ \E v \in 0..(pcr[x.index] - 1) : x.blob.made = <<x.index, v>>
          BY <4>2, Zenon DEF Outcome
        <5>4. PICK v \in 0..(pcr[x.index] - 1) : x.blob.made = <<x.index, v>>  BY <5>3, Zenon
        <5>5. v \in 0..(pcr'[x.index] - 1)  BY <5>2
        <5> QED  BY <5>3, <5>4, <5>5, Zenon
      <4> QED  BY <4>2, Zenon DEF Outcome
    <3> QED  BY <3>1, <3>2, <3>3, Zenon DEF Sound
  <2>3. CASE x.pc # "idle"
    <3> DEFINE y == Excuse(x)
    <3>1. ctx'[c] = y  BY <2>3, Zenon
    <3>2. DOMAIN x = Fields  BY Zenon DEF SealInv, TpmInv, Covered, Shape
    <3>3. Sound(y, live, pcr, blobs) /\ y.excused /\ y.pc = x.pc
      BY <3>2, ExcuseSound, Zenon DEF Excuse, Fields
    <3> USE <3>3
    <3> HIDE DEF y, x
    <3>4. About(y, blobs') /\ y.index \in Indexes  BY <2>3, Zenon DEF Sound, About
    <3>5. Sealing(y, live', pcr')  BY <3>4, Zenon DEF Sound, Sealing
    <3>6. Unsealing(y, live', pcr')  BY Zenon DEF Sound, Unsealing
    <3>7. Outcome(y, pcr')  BY Zenon DEF Sound, Outcome
    <3> QED  BY <3>1, <3>4, <3>5, <3>6, <3>7, Zenon DEF Sound
  <2> QED  BY <2>2, <2>3, Zenon
<1> QED  BY <1>4, <1>5, Zenon DEF SealInv

LEMMA InitSeal == Init => SealInv
<1> SUFFICES ASSUME Init PROVE SealInv  BY Zenon
<1>1. pcr \in [Indexes -> Nat] /\ blobs = {}  BY Zenon DEF Init
<1>2. ASSUME NEW c \in Contexts PROVE Sound(ctx[c], live, pcr, blobs)
  <2>1. ctx[c].pc = "idle" /\ ctx[c].result = <<>>  BY Zenon DEF Init, Closed
  <2> QED  BY <2>1, FreshSound, Zenon
<1> QED  BY <1>1, <1>2, InitTpm, Zenon DEF SealInv

LEMMA SealNext == SealInv /\ [Next]_vars => SealInv'
<1> SUFFICES ASSUME SealInv, [Next]_vars PROVE SealInv'  BY Zenon
<1>0. TpmInv'  BY TpmNext, Zenon DEF SealInv
<1> USE <1>0
<1>1. ASSUME NEW c \in Contexts, Step(c) PROVE SealInv'
  BY <1>1, ReadPublicSound, CreatePrimarySound, EvictControlSound, StartTrialSessionSound,
     TrialPolicySound, PolicyGetDigestSound, CreateSound, LoadSound, StartSessionSound,
     SessionPolicySound, UnsealSound, FlushSound, Zenon DEF Step
<1>2. ASSUME NEW c \in Contexts, CallSeal(c) \/ CallUnseal(c) PROVE SealInv'
  <2>1. CASE CallSeal(c)
    <3>1. PICK op \in Seals, i \in Indexes : Call(c, op, i, None)  BY <2>1, Zenon DEF CallSeal, Seals
    <3>2. op \in Seals \cup Unseals /\ op \notin Unseals  BY Zenon DEF Seals, Unseals
    <3> QED  BY <3>1, <3>2, CallSound, Zenon
  <2>2. CASE CallUnseal(c)
    <3>1. PICK op \in Unseals, i \in Indexes, b \in blobs : Call(c, op, i, b)
      BY <2>2, Zenon DEF CallUnseal, Unseals
    <3>2. op \in Seals \cup Unseals  BY Zenon
    <3> QED  BY <3>1, <3>2, CallSound, Zenon
  <2> QED  BY <1>2, <2>1, <2>2, Zenon
<1>3. CASE UNCHANGED vars
  BY <1>3, Zenon DEF vars, SealInv
<1> QED  BY <1>1, <1>2, <1>3, OpenSound, CleanupSound, ExtendSound, Zenon DEF Next

(* Whatever contexts, PCRs, handle slots, faults and PCR changes there are *)
(* and however the commands of the contexts interleave: an unseal returns  *)
(* data bound to a PCR only while that PCR is what it was at the seal, and *)
(* a call fails only for a command that failed, a lost race, a PCR that    *)
(* changed, or a blob of the other form, of another PCR or of an earlier   *)
(* value.                                                                  *)
THEOREM SealedDataReturns == Spec => []UnsealIsRight
<1>1. SealInv => UnsealIsRight
  <2> SUFFICES ASSUME SealInv PROVE UnsealIsRight  BY Zenon
  <2>1. OpensOnlyWithPcr
    BY Zenon DEF SealInv, Sound, Outcome, OpensOnlyWithPcr
  <2>2. ASSUME NEW c \in Contexts, ctx[c].result = <<"failed">>, ~ctx[c].excused
        PROVE  /\ ctx[c].op \in {"unseal", "unseal_pcr"}
               /\ \/ ctx[c].blob.index # Bound(ctx[c].op, ctx[c].index)
                  \/ ctx[c].blob.made # Digest(ctx[c].index)
    <3> USE <2>2
    <3> DEFINE x == ctx[c]
    <3>1. Outcome(x, pcr) /\ About(x, blobs)  BY Zenon DEF SealInv, Sound
    <3> USE <3>1
    <3>2. x.op \in Unseals  BY Zenon DEF Outcome
    <3>3. x.index \in Indexes
      BY Results, Zenon DEF About
    <3>4. ASSUME x.blob.index = Bound(x.op, x.index) PROVE x.blob.made # Digest(x.index)
      <4>1. PICK v \in 0..(pcr[x.index] - 1) : x.blob.made = <<x.index, v>>
        BY <3>4, Zenon DEF Outcome
      <4>2. v # pcr[x.index]  BY <3>3 DEF SealInv
      <4> QED  BY <4>1, <4>2 DEF Digest
    <3> QED  BY <3>2, <3>4, Zenon DEF Unseals
  <2> QED  BY <2>1, <2>2, Zenon DEF UnsealIsRight, SealedComesBack
<1> QED  BY <1>1, InitSeal, SealNext, PTL DEF Spec
=============================================================================
