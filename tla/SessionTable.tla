---------------------------- MODULE SessionTable ----------------------------
(***************************************************************************)
(* The session table of hiya-authd (src/daemon/bio_daemon.c): a fixed      *)
(* array of slots that D-Bus methods search, expire, evict, verify, extend *)
(* and revoke, a periodic sweep, and a configuration reload that may       *)
(* shrink the usable part of the array.  All of them run on the main       *)
(* thread, one after the other; time passes between and during them.       *)
(***************************************************************************)
EXTENDS Integers, FiniteSets

CONSTANTS MaxSlots,     \* BIO_MAX_SESSIONS
          Uids, RootUid,
          Senders,      \* bus connections
          UidOf,        \* the uid behind each connection
          Ages,         \* values of session_max_age_seconds
          Extensions,   \* values ExtendSession is called with
          UintRange,    \* guint arithmetic is modulo this power of two
          ScanTimes,    \* seconds a fingerprint scan may take
          MaxClock,     \* bound: latest second reached
          MaxTokens     \* bound: tokens drawn

ASSUME SessionAssumption ==
  /\ MaxSlots \in Nat \ {0}
  /\ RootUid \in Uids
  /\ UidOf \in [Senders -> Uids]
  /\ Ages \subseteq Nat /\ Extensions \subseteq Nat /\ ScanTimes \subseteq Nat
  /\ UintRange \in Nat \ {0} /\ MaxClock \in Nat /\ MaxTokens \in Nat

Slots == 0..(MaxSlots - 1)
NoToken == 0                  \* a wiped token; random tokens are numbered from 1
NoSender == "none"            \* an empty sender field

VARIABLES
  sessions,     \* d->sessions
  count,        \* d->session_count
  maxSessions,  \* d->config.max_sessions
  maxAge,       \* d->config.session_max_age_seconds
  now,          \* time(NULL)
  drawn,        \* tokens drawn so far; 32 random bytes do not repeat
  proved        \* history: tokens whose holder passed a biometric check

vars == <<sessions, count, maxSessions, maxAge, now, drawn, proved>>

Session == [active : BOOLEAN, verified : BOOLEAN, uid : Uids,
            sender : Senders \cup {NoSender}, created : Int, token : Nat]
Wiped == [active |-> FALSE, verified |-> FALSE, uid |-> RootUid,
          sender |-> NoSender, created |-> 0, token |-> NoToken]

\* session_capacity: the configured limit, kept between 1 and the array size.
Capacity(limit) == IF limit < 1 THEN 1
                   ELSE IF limit > MaxSlots THEN MaxSlots ELSE limit
Usable == 0..(Capacity(maxSessions) - 1)

Active == {i \in Slots : sessions[i].active}
Expired(i) == now - sessions[i].created > maxAge
Lapsed == {i \in Usable : sessions[i].active /\ Expired(i)}

\* Mutant: one for all the slots of a loop.
MinusOnce(n) == IF count > 0 /\ n > 0 THEN count - 1 ELSE count

\* "if (d->session_count > 0) d->session_count--", once for each of n slots.
Minus(n) == IF count >= n THEN count - n ELSE 0

\* The sessions a caller's connection may extend, revoke or be told about.
Owns(s, i) == /\ sessions[i].active
              /\ sessions[i].uid = UidOf[s]
              /\ sessions[i].sender \in {s, NoSender}

First(S) == {i \in S : \A j \in S : i <= j}

Deactivate(S) == [i \in Slots |-> IF i \in S
                    THEN [sessions[i] EXCEPT !.active = FALSE] ELSE sessions[i]]

Init ==
  /\ sessions = [i \in Slots |-> Wiped]
  /\ count = 0
  /\ maxSessions = MaxSlots
  /\ maxAge \in Ages
  /\ now = 0 /\ drawn = 0 /\ proved = {}

-----------------------------------------------------------------------------
(* create_session.                                                         *)

\* The first slot that is free or whose session has expired; failing that,
\* the oldest session created strictly before now, the first of equals.
Reusable == {i \in Usable : ~sessions[i].active \/ Expired(i)}
Older == {i \in Usable : sessions[i].created < now}
Oldest == {i \in Older : \A j \in Older : sessions[i].created <= sessions[j].created}
Candidates == IF Reusable # {} THEN Reusable ELSE Oldest

\* Mutants: the slot's verified flag or its token is not reset.
NewKeepsVerified(i, uid, s, verified) ==
  [active |-> TRUE, verified |-> verified \/ sessions[i].verified, uid |-> uid,
   sender |-> s, created |-> now, token |-> drawn + 1]
NewKeepsToken(i, uid, s, verified) ==
  [active |-> TRUE, verified |-> verified, uid |-> uid, sender |-> s, created |-> now,
   token |-> IF sessions[i].token = NoToken THEN drawn + 1 ELSE sessions[i].token]

\* The session put in slot i, which has been wiped first.
New(i, uid, s, verified) ==
  [active |-> TRUE, verified |-> verified, uid |-> uid, sender |-> s,
   created |-> now, token |-> drawn + 1]

\* The whole of create_session: the slot is wiped, and filled unless drawing
\* the random bytes or locking the key in memory fails.
Create(uid, s, verified, ok) ==
  \/ /\ Candidates = {}
     /\ UNCHANGED <<sessions, count, drawn, proved>>
  \/ \E i \in First(Candidates) :
       LET freed == IF sessions[i].active THEN Minus(1) ELSE count
       IN  \/ /\ ok
              /\ drawn' = drawn + 1
              /\ sessions' = [sessions EXCEPT ![i] = New(i, uid, s, verified)]
              /\ count' = freed + 1
              /\ proved' = IF verified THEN proved \cup {drawn + 1} ELSE proved
           \/ /\ ~ok
              /\ sessions' = [sessions EXCEPT ![i] = Wiped]
              /\ count' = freed
              /\ UNCHANGED <<drawn, proved>>

\* CreateSession: root may name the uid, others get their own.
CreateSession(s, uid, ok) ==
  /\ drawn < MaxTokens
  /\ uid = UidOf[s] \/ UidOf[s] = RootUid
  /\ Create(uid, s, FALSE, ok)
  /\ UNCHANGED <<maxSessions, maxAge, now>>

\* Authenticate and AuthenticateInteractive, after a finger or a face matched.
Authenticate(s, ok) ==
  /\ drawn < MaxTokens
  /\ Create(UidOf[s], s, TRUE, ok)
  /\ UNCHANGED <<maxSessions, maxAge, now>>

-----------------------------------------------------------------------------
(* Lookups.  Both expire the lapsed sessions that come before the match.   *)

Before(match) == {i \in Lapsed : \A j \in match : i < j}

Matching(t) == {i \in Usable : /\ sessions[i].active /\ ~Expired(i)
                               /\ sessions[i].token = t}

\* Verify: find_session, the owner and connection checks, and the scan, which
\* takes "scan" seconds.  Outcome "unsigned" is a match whose verify token
\* could not be computed.
Verify(s, t, outcome, scan) ==
  LET allowed == {i \in First(Matching(t)) :
                    /\ UidOf[s] \in {RootUid, sessions[i].uid}
                    /\ sessions[i].sender \in {s, NoSender}}
      kept == Deactivate(Before(Matching(t)))
  IN  /\ count' = Minus(Cardinality(Before(Matching(t))))
      /\ \/ /\ allowed = {}
            /\ sessions' = kept
            /\ UNCHANGED <<now, proved>>
         \/ \E i \in allowed :
              /\ now + scan <= MaxClock
              /\ now' = now + scan
              /\ sessions' = [kept EXCEPT ![i].verified =
                   CASE outcome = "match" -> TRUE
                     [] outcome = "unsigned" -> FALSE
                     [] OTHER -> @]
              /\ proved' = IF outcome = "match" THEN proved \cup {t} ELSE proved
      /\ UNCHANGED <<maxSessions, maxAge, drawn>>

\* IsAuthenticated: find_verified_session_for_sender.
Authenticated(s) == {i \in Usable : ~Expired(i) /\ Owns(s, i) /\ sessions[i].verified}

IsAuthenticated(s) ==
  /\ sessions' = Deactivate(Before(Authenticated(s)))
  /\ count' = Minus(Cardinality(Before(Authenticated(s))))
  /\ UNCHANGED <<maxSessions, maxAge, now, drawn, proved>>

-----------------------------------------------------------------------------
(* ExtendSession, RevokeSession, the sweep, the reload and the clock.      *)

\* Mutant: no cap.
ExtendedUncapped(i, secs) == sessions[i].created + secs

\* The new creation time; the sum of two guints wraps.
ExtendedCreated(i, secs) ==
  LET remaining == maxAge - (now - sessions[i].created)
      target == (remaining + secs) % UintRange
  IN  now - (maxAge - (IF target > maxAge THEN maxAge ELSE target))

ExtendSession(s, secs) ==
  LET mine == {i \in Usable : Owns(s, i) /\ sessions[i].verified}
      gone == {i \in mine : Expired(i)}
  IN  /\ sessions' = [i \in Slots |->
           CASE i \in gone -> [sessions[i] EXCEPT !.active = FALSE]
             [] i \in mine \ gone ->
                  [sessions[i] EXCEPT !.created = ExtendedCreated(i, secs)]
             [] OTHER -> sessions[i]]
      /\ count' = Minus(Cardinality(gone))
      /\ UNCHANGED <<maxSessions, maxAge, now, drawn, proved>>

RevokeSession(s) ==
  LET mine == {i \in Usable : Owns(s, i)}
  IN  /\ sessions' = [i \in Slots |-> IF i \in mine THEN Wiped ELSE sessions[i]]
      /\ count' = Minus(Cardinality(mine))
      /\ UNCHANGED <<maxSessions, maxAge, now, drawn, proved>>

\* Mutant: the last slot is not visited.
SweepMissesLast ==
  LET seen == {i \in Lapsed : i + 1 \in Usable}
  IN  /\ sessions' = Deactivate(seen)
      /\ count' = Minus(Cardinality(seen))
      /\ UNCHANGED <<maxSessions, maxAge, now, drawn, proved>>

\* sweep_expired_sessions, every 60 seconds.
Sweep ==
  /\ sessions' = Deactivate(Lapsed)
  /\ count' = Minus(Cardinality(Lapsed))
  /\ UNCHANGED <<maxSessions, maxAge, now, drawn, proved>>

\* prune_sessions_to_capacity: the active slots a smaller limit leaves outside.
Pruned(limit) == {i \in Active : i >= Capacity(limit)}

\* The session part of reload_daemon_config.
Reload(limit, age) ==
  /\ maxSessions' = limit
  /\ maxAge' = age
  /\ sessions' = Deactivate(Pruned(limit))
  /\ count' = Minus(Cardinality(Pruned(limit)))
  /\ UNCHANGED <<now, drawn, proved>>

Tick ==
  /\ now < MaxClock
  /\ now' = now + 1
  /\ UNCHANGED <<sessions, count, maxSessions, maxAge, drawn, proved>>

Next ==
  \/ \E s \in Senders : \E uid \in Uids : \E ok \in BOOLEAN : CreateSession(s, uid, ok)
  \/ \E s \in Senders : \E ok \in BOOLEAN : Authenticate(s, ok)
  \/ \E s \in Senders : \E t \in 1..MaxTokens : \E scan \in ScanTimes :
       \E outcome \in {"match", "unsigned", "nomatch"} : Verify(s, t, outcome, scan)
  \/ \E s \in Senders : IsAuthenticated(s)
  \/ \E s \in Senders : \E secs \in Extensions : ExtendSession(s, secs)
  \/ \E s \in Senders : RevokeSession(s)
  \/ Sweep
  \/ \E limit \in 1..MaxSlots : \E age \in Ages : Reload(limit, age)
  \/ Tick

Spec == Init /\ [][Next]_vars

\* The sweep is a GLib timeout source that is never removed.
FairSpec == Spec /\ WF_vars(Sweep)

-----------------------------------------------------------------------------
(* Properties.                                                             *)

TypeOK ==
  /\ sessions \in [Slots -> Session]
  /\ count \in Nat
  /\ maxSessions \in 1..MaxSlots
  /\ maxAge \in Ages
  /\ now \in Nat /\ drawn \in Nat
  /\ proved \subseteq Nat

\* session_count is the number of active slots, although seven places change
\* it one slot at a time and each hides an underflow behind "if (count > 0)".
CountMatchesActive == count = Cardinality(Active)

\* No session lives in a slot the current limit leaves out of every search,
\* where it could be neither found, revoked nor swept.
NoneOutOfReach == Active \subseteq Usable

\* Two live sessions never share a token, and no live session has the token of
\* a wiped slot.
TokensUnique ==
  \A i, j \in Active : /\ sessions[i].token # NoToken
                       /\ sessions[i].token = sessions[j].token => i = j

\* The table agrees with itself: types, count, reach and tokens.
TableConsistent == TypeOK /\ CountMatchesActive /\ NoneOutOfReach /\ TokensUnique

\* A live verified session belongs to somebody who passed a biometric check in
\* that very session: a reused slot inherits nothing from its last occupant.
VerifiedWasProved ==
  \A i \in Active : sessions[i].verified => sessions[i].token \in proved

\* ExtendSession never grants more than the maximum age from now on.
NeverFromTheFuture == \A i \in Active : sessions[i].created <= now

\* A session that has ended, by expiry, eviction, revocation or pruning, never
\* comes back: a token is live after a step only if it was live or is new.
Live == {sessions[i].token : i \in Active}
DeadStaysDead == [][Live' \subseteq Live \cup (drawn + 1)..drawn']_vars

\* A live session in reach that has not expired loses its slot to a new one
\* only when the table is full of such sessions and none is older.
EvictsOnlyTheOldest ==
  [][drawn' > drawn =>
       \A i \in Usable : (sessions[i].active /\ ~Expired(i) /\ sessions'[i] # sessions[i]) =>
         \A j \in Usable : /\ sessions[j].active /\ ~Expired(j)
                           /\ sessions[i].created <= sessions[j].created]_vars

\* An extension whose sum does not wrap never brings the expiry forward.
ExtendNeverShortens ==
  \A i \in Active : \A secs \in Extensions :
    (~Expired(i) /\ maxAge + secs < UintRange) =>
      ExtendedCreated(i, secs) >= sessions[i].created

\* ExtendSession moves the end of a session forward, if its sum does not wrap,
\* and never beyond the maximum age from now on, wrapped or not.
ExtensionsSound == NeverFromTheFuture /\ ExtendNeverShortens

\* A session ends once, and a new one ends no other but the oldest.
EndsAreFinal == DeadStaysDead /\ EvictsOnlyTheOldest

\* An expired session does not stay active: sweep_expired_sessions reaches it.
ExpiredIsCleared ==
  \A i \in Slots :
    (sessions[i].active /\ Expired(i)) ~> (~sessions[i].active \/ ~Expired(i))
=============================================================================
