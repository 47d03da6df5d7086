-------------------------------- MODULE Tpm --------------------------------
(***************************************************************************)
(* Sealing with the TPM (src/tpm/bio_tpm.c): contexts of several users     *)
(* (the daemon's, one per vault operation, hiya-fido2d's), each sending    *)
(* its commands one at a time to one TPM behind the kernel's resource      *)
(* manager.  One action is one command: what bio_tpm_execute sends, what   *)
(* the TPM does with it and what the caller does with the answer, up to    *)
(* the next command.  A command may be refused, fail to be sent, or be     *)
(* carried out with its answer lost.                                       *)
(*                                                                         *)
(* Data that is sealed stands for itself: a blob is the private and public *)
(* part TPM2_Create returns, packed with the PCR index it is bound to.     *)
(***************************************************************************)
EXTENDS Naturals, Sequences

CONSTANTS
  Contexts,    \* bio_tpm_ctx_t of the users of the TPM
  Handles,     \* the transient handles the TPM has room for
  Primary,     \* ctx->primary_handle of each context: HIYA_TPM_PRIMARY_HANDLE or the configured one
  Indexes,     \* the PCR indexes of the configurations
  Ops,         \* the calls each context makes
  None,
  MaxFaults,   \* bound: commands that fail
  MaxExtends   \* bound: changes of each PCR

ASSUME OpsAssumption ==
  Ops \in [Contexts -> SUBSET {"seal", "unseal", "seal_pcr", "unseal_pcr"}]
ASSUME NoneAssumption == None \notin Contexts /\ None \notin Indexes

VARIABLES
  ctx,         \* the contexts, with the call each is in
  persistent,  \* the persistent handles that hold a key
  live,        \* what each transient handle names: whose it is, or None's
  pcr,         \* the value of each PCR
  blobs,       \* the blobs that were sealed
  faults       \* commands that failed so far

vars == <<ctx, persistent, live, pcr, blobs, faults>>

Closed == [open |-> FALSE, pc |-> "idle", op |-> None, index |-> None, blob |-> None,
           transient |-> None, session |-> None, item |-> None, digest |-> None, asked |-> None,
           todo |-> <<>>, result |-> <<>>, harmed |-> FALSE, excused |-> FALSE]

(* A transient handle that names nothing. *)
Free == [owner |-> None, policy |-> None, at |-> None]

(* What an index is for the operations that bind to no PCR. *)
Bound(op, i) == IF op \in {"seal_pcr", "unseal_pcr"} THEN i ELSE None

(* A PCR and its present value. *)
Digest(i) == <<i, pcr[i]>>

---------------------------------------------------------------------------
(* The commands *)

Room == {h \in Handles : live[h].owner = None}
Fresh == CHOOSE h \in Room : TRUE
Doing(c, pc) == ctx[c].open /\ ctx[c].pc = pc /\ ctx[c].todo = <<>>
Excuse(x) == [x EXCEPT !.excused = TRUE]
Harm(x) == [x EXCEPT !.excused = TRUE, !.harmed = TRUE]

(* bio_tpm_execute.  The TPM accepts the command when ok: the context      *)
(* becomes good.  When it does not, or when the command cannot be sent,    *)
(* the context becomes bad.  When the answer is lost the context becomes   *)
(* bad although the TPM has carried the command out.                       *)
Succeeds(c, ok, good) ==
  /\ ok
  /\ ctx' = [ctx EXCEPT ![c] = good]
  /\ UNCHANGED faults
Refused(c, ok, bad) ==
  /\ ~ok \/ faults < MaxFaults
  /\ faults' = IF ok THEN faults + 1 ELSE faults
  /\ ctx' = [ctx EXCEPT ![c] = IF ok THEN Excuse(bad) ELSE bad]
  /\ UNCHANGED <<persistent, live>>
AnswerLost(c, ok, bad) ==
  /\ ok /\ faults < MaxFaults
  /\ faults' = faults + 1
  /\ ctx' = [ctx EXCEPT ![c] = bad]

(* A command that creates something with a transient handle: an object     *)
(* with its policy, or a session.                                          *)
Creates(c, policy, good(_), bad) ==
  LET ok == Room # {}
      made == [live EXCEPT ![Fresh] = [owner |-> c, policy |-> policy, at |-> None]]
  IN  /\ \/ Succeeds(c, ok, good(Fresh)) /\ live' = made /\ UNCHANGED persistent
         \/ Refused(c, ok, IF ok THEN bad ELSE Excuse(bad))
         \/ AnswerLost(c, ok, Harm(bad)) /\ live' = made /\ UNCHANGED persistent
      /\ UNCHANGED <<pcr, blobs>>

(* A command that creates nothing. *)
Asks(c, ok, good, bad) ==
  /\ \/ Succeeds(c, ok, good) /\ UNCHANGED <<persistent, live>>
     \/ Refused(c, ok, bad)
  /\ UNCHANGED <<pcr, blobs>>

(* The call returns, after flushing the handles in the sequence flush. *)
Return(x, result, flush) ==
  [x EXCEPT !.pc = "idle", !.result = result, !.todo = flush,
            !.transient = None, !.session = None, !.item = None, !.digest = None, !.asked = None]
Fail(x, flush) == Return(x, <<"failed">>, flush)

(* bio_tpm_flush_context: nobody looks at its result. *)
Flush(c) ==
  /\ ctx[c].open /\ ctx[c].todo # <<>>
  /\ LET h == Head(ctx[c].todo)
         rest == [ctx[c] EXCEPT !.todo = Tail(@)]
     IN  \/ Succeeds(c, TRUE, rest) /\ live' = [live EXCEPT ![h] = Free] /\ UNCHANGED persistent
         \/ Refused(c, TRUE, Harm(rest))
  /\ UNCHANGED <<pcr, blobs>>

---------------------------------------------------------------------------
(* bio_tpm_ensure_primary_key *)

(* With the primary key at hand, the command the call goes on with; a blob *)
(* of another form, or bound to another PCR, is not loaded.                *)
WithPrimary(x) ==
  CASE x.op = "seal" -> [x EXCEPT !.pc = "create"]
    [] x.op = "seal_pcr" -> [x EXCEPT !.pc = "trial"]
    [] OTHER -> IF x.blob.index = Bound(x.op, x.index) THEN [x EXCEPT !.pc = "load"]
                                                       ELSE Fail(x, <<>>)

ReadPublic(c) ==
  /\ Doing(c, "public")
  /\ Asks(c, Primary[c] \in persistent, WithPrimary(ctx[c]), [ctx[c] EXCEPT !.pc = "primary"])

CreatePrimary(c) ==
  /\ Doing(c, "primary")
  /\ Creates(c, None,
             LAMBDA h : [ctx[c] EXCEPT !.pc = "evict", !.transient = h],
             Fail(ctx[c], <<>>))

(* TPM2_EvictControl refuses a handle that is taken: two contexts that     *)
(* found no key both create one, and the second one's call fails.  The     *)
(* transient handle is flushed either way.                                 *)
\* Mutant: the failure path returns without the flush.
FlushTransientOnSuccess(x, ok) == IF ok THEN <<x.transient>> ELSE <<>>
FlushTransient(x, ok) == <<x.transient>>

EvictControl(c) ==
  /\ Doing(c, "evict")
  /\ LET x == ctx[c]
         ok == Primary[c] \notin persistent
         good == [WithPrimary(x) EXCEPT !.todo = FlushTransient(x, TRUE)]
         bad == Excuse(Fail(x, FlushTransient(x, FALSE)))
         kept == persistent' = persistent \cup {Primary[c]} /\ UNCHANGED live
     IN  \/ Succeeds(c, ok, good) /\ kept
         \/ Refused(c, ok, bad)
         \/ AnswerLost(c, ok, bad) /\ kept
  /\ UNCHANGED <<pcr, blobs>>

---------------------------------------------------------------------------
(* Sealing *)

(* TPM2_Create with the policy digest the trial session left, or with none *)
(* (bio_tpm_create_sealed).  The blob is packed with the index; made is    *)
(* what the caller asked to bind it to (history).                          *)
\* Mutant: the policy is not put into the template.
AuthPolicyNone(x) == None
AuthPolicy(x) == x.digest

Create(c) ==
  /\ Doing(c, "create")
  /\ LET x == ctx[c]
     IN  \/ /\ Succeeds(c, TRUE, Return(x, <<"sealed">>, <<>>))
            /\ blobs' = blobs \cup {[index |-> Bound(x.op, x.index), policy |-> AuthPolicy(x),
                                     made |-> x.asked]}
            /\ UNCHANGED <<persistent, live>>
         \/ Refused(c, TRUE, Fail(x, <<>>)) /\ UNCHANGED blobs
  /\ UNCHANGED pcr

(* bio_tpm_create_sealed_pcr: a trial session computes the digest and is   *)
(* flushed whatever comes of it.                                           *)
StartTrialSession(c) ==
  /\ Doing(c, "trial")
  /\ Creates(c, None,
             LAMBDA h : [ctx[c] EXCEPT !.pc = "trial_policy", !.session = h],
             Fail(ctx[c], <<>>))

(* bio_tpm_policy_pcr in the session of context c: the TPM extends the     *)
(* session's digest with the present value of the PCR.                     *)
PolicyPCR(c, good, bad) ==
  LET s == ctx[c].session
  IN  /\ \/ /\ Succeeds(c, TRUE, good)
            /\ live' = [live EXCEPT ![s].policy = Digest(ctx[c].index), ![s].at = pcr]
            /\ UNCHANGED persistent
         \/ Refused(c, TRUE, bad)
      /\ UNCHANGED <<pcr, blobs>>

TrialPolicy(c) ==
  /\ Doing(c, "trial_policy")
  /\ PolicyPCR(c, [ctx[c] EXCEPT !.pc = "digest", !.asked = Digest(ctx[c].index)],
               Fail(ctx[c], <<ctx[c].session>>))

PolicyGetDigest(c) ==
  /\ Doing(c, "digest")
  /\ LET x == ctx[c]
     IN  Asks(c, TRUE, [x EXCEPT !.pc = "create", !.digest = live[x.session].policy,
                                 !.todo = <<x.session>>],
              Fail(x, <<x.session>>))

---------------------------------------------------------------------------
(* Unsealing *)

Load(c) ==
  /\ Doing(c, "load")
  /\ Creates(c, ctx[c].blob.policy,
             LAMBDA h : [ctx[c] EXCEPT !.item = h,
                                       !.pc = IF ctx[c].op = "unseal" THEN "unseal" ELSE "session"],
             Fail(ctx[c], <<>>))

StartSession(c) ==
  /\ Doing(c, "session")
  /\ Creates(c, None, LAMBDA h : [ctx[c] EXCEPT !.pc = "policy", !.session = h],
             Fail(ctx[c], <<ctx[c].item>>))

SessionPolicy(c) ==
  /\ Doing(c, "policy")
  /\ PolicyPCR(c, [ctx[c] EXCEPT !.pc = "unseal"],
               Fail(ctx[c], <<ctx[c].session, ctx[c].item>>))

(* TPM2_Unseal with the password, or with the policy session: the TPM      *)
(* accepts a session whose digest is the object's, as long as no PCR has   *)
(* changed since PolicyPCR.  Both handles are flushed whatever comes of it.*)
Unseal(c) ==
  /\ Doing(c, "unseal")
  /\ LET x == ctx[c]
         plain == x.op = "unseal"
         ok == IF plain THEN live[x.item].policy = None
                        ELSE /\ live[x.session].policy = live[x.item].policy
                             /\ live[x.session].at = pcr
         flush == IF plain THEN <<x.item>> ELSE <<x.session, x.item>>
     IN  Asks(c, ok, Return(x, <<"data", x.blob, pcr>>, flush), Fail(x, flush))

---------------------------------------------------------------------------
(* The users *)

(* bio_tpm_init, and bio_tpm_cleanup between calls: the resource manager   *)
(* frees what belongs to the connection that closes.                       *)
Open(c) ==
  /\ ~ctx[c].open
  /\ ctx' = [ctx EXCEPT ![c] = [Closed EXCEPT !.open = TRUE]]
  /\ UNCHANGED <<persistent, live, pcr, blobs, faults>>

Cleanup(c) ==
  /\ Doing(c, "idle")
  /\ ctx' = [ctx EXCEPT ![c] = Closed]
  /\ live' = [h \in Handles |-> IF live[h].owner = c THEN Free ELSE live[h]]
  /\ UNCHANGED <<persistent, pcr, blobs, faults>>

(* A call, for a PCR of the configuration and, to unseal, one of the blobs *)
(* that were stored.                                                       *)
Call(c, op, i, b) ==
  /\ Doing(c, "idle")
  /\ op \in Ops[c]
  /\ ctx' = [ctx EXCEPT ![c] = [Closed EXCEPT !.open = TRUE, !.pc = "public", !.op = op,
                                              !.index = i, !.blob = b, !.harmed = ctx[c].harmed]]
  /\ UNCHANGED <<persistent, live, pcr, blobs, faults>>

CallSeal(c) == \E op \in {"seal", "seal_pcr"}, i \in Indexes : Call(c, op, i, None)
CallUnseal(c) == \E op \in {"unseal", "unseal_pcr"}, i \in Indexes, b \in blobs : Call(c, op, i, b)

(* The platform extends a PCR. *)
Extend(i) ==
  /\ pcr[i] < MaxExtends
  /\ pcr' = [pcr EXCEPT ![i] = @ + 1]
  /\ ctx' = [c \in Contexts |-> IF ctx[c].pc = "idle" THEN ctx[c] ELSE Excuse(ctx[c])]
  /\ UNCHANGED <<persistent, live, blobs, faults>>

Init ==
  /\ ctx = [c \in Contexts |-> Closed]
  /\ persistent = {}
  /\ live = [h \in Handles |-> Free]
  /\ pcr = [i \in Indexes |-> 0]
  /\ blobs = {}
  /\ faults = 0

Step(c) ==
  \/ ReadPublic(c) \/ CreatePrimary(c) \/ EvictControl(c)
  \/ StartTrialSession(c) \/ TrialPolicy(c) \/ PolicyGetDigest(c) \/ Create(c)
  \/ Load(c) \/ StartSession(c) \/ SessionPolicy(c) \/ Unseal(c)
  \/ Flush(c)

Next ==
  \/ \E c \in Contexts : Open(c) \/ Cleanup(c) \/ CallSeal(c) \/ CallUnseal(c) \/ Step(c)
  \/ \E i \in Indexes : Extend(i)

Spec == Init /\ [][Next]_vars

---------------------------------------------------------------------------
(* Properties *)

(* A call that has returned leaves no transient object and no session of   *)
(* its own in the TPM, on any of its error paths, except what an answer    *)
(* that was lost or a flush that failed left there: the TPM has room for a *)
(* few handles, and the daemon's context (d->tpm_ctx) stays open.          *)
NothingLeftBehind ==
  \A c \in Contexts :
    Doing(c, "idle") /\ ~ctx[c].harmed => \A h \in Handles : live[h].owner # c

(* What bio_tpm_seal_for_user_pcr sealed comes out again only while the    *)
(* PCR has the value it had when the trial session computed the policy.    *)
OpensOnlyWithPcr ==
  \A c \in Contexts :
    LET r == ctx[c].result
    IN  Len(r) = 3 /\ r[2].index # None => r[2].made = <<r[2].index, r[3][r[2].index]>>

(* A call fails only for a reason: a command failed or the TPM had no      *)
(* room, another context was creating the primary key at the same moment,  *)
(* a PCR changed, or, for an unseal, the blob is of the other form or      *)
(* bound to another PCR or value.  What was sealed otherwise comes back on *)
(* every later call.                                                       *)
SealedComesBack ==
  \A c \in Contexts :
    ctx[c].result = <<"failed">> /\ ~ctx[c].excused =>
      LET b == ctx[c].blob
      IN  /\ ctx[c].op \in {"unseal", "unseal_pcr"}
          /\ \/ b.index # Bound(ctx[c].op, ctx[c].index)
             \/ b.made # Digest(ctx[c].index)

(* Sealed data comes back when it should and only then. *)
UnsealIsRight == OpensOnlyWithPcr /\ SealedComesBack
=============================================================================
