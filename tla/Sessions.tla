------------------------------ MODULE Sessions ------------------------------
(***************************************************************************)
(* The sessions table: Manager.newSession, Authenticate and Logout and the *)
(* calls of the store they make.  A session's end is stored as text in the *)
(* format RFC3339Nano, and the table is asked for it by comparing texts.   *)
(* The format drops the zeros at the end of the fraction and the point     *)
(* before an empty one, so that the order of texts is that of times only   *)
(* between different seconds.                                              *)
(*                                                                         *)
(* Time passes in quarters of a second: two binary digits stand for the    *)
(* nine decimal ones, and have the same four kinds of fraction.            *)
(***************************************************************************)
EXTENDS Integers, Sequences

CONSTANTS
  Tokens,   \* session tokens; each is drawn once
  First,    \* the token of the session the administrator begins with
  TTL,      \* Manager.ttl, in quarters
  MaxTime   \* a bound for TLC

ASSUME SessionAssumption ==
  TTL \in Nat \ {0} /\ MaxTime \in Nat /\ First \in Tokens

VARIABLES
  now,      \* the clock
  rows,     \* tokens that have a row
  issued,   \* tokens drawn
  expires,  \* per token: expires_at; ghost once the row is gone
  revoked   \* ghost: tokens whose row a logout deleted

sessionVars == <<now, rows, issued, expires, revoked>>

SessionTypeOK ==
  /\ now \in 0..MaxTime
  /\ rows \subseteq issued /\ revoked \subseteq issued /\ issued \subseteq Tokens
  /\ expires \in [Tokens -> 0..(MaxTime + TTL)]

SessionInit ==
  /\ now = 0 /\ rows = {First} /\ issued = {First} /\ revoked = {}
  /\ expires = [t \in Tokens |-> TTL]

-----------------------------------------------------------------------------
(* Times as text.                                                          *)

Second(time) == time \div 4

\* Character codes in their order: the point, the digits, the Z of UTC.
Point == -1
Zulu  == 2

\* What is left of the fraction.
Fraction(time) ==
  LET d == <<(time \div 2) % 2, time % 2>>
  IN  IF d[2] # 0 THEN <<Point>> \o d
      ELSE IF d[1] # 0 THEN <<Point, d[1]>> ELSE <<>>

\* All before the fraction has one width.
Text(time) == <<Second(time)>> \o Fraction(time) \o <<Zulu>>

\* SQLite compares byte by byte. No text is the beginning of another.
Before(s, t) ==
  \E i \in DOMAIN s \cap DOMAIN t : s[i] < t[i] /\ \A j \in 1..(i - 1) : s[j] = t[j]

Expired(t, time) == ~Before(Text(time), Text(expires[t]))

-----------------------------------------------------------------------------

Tick == now < MaxTime /\ now' = now + 1 /\ UNCHANGED <<rows, issued, expires, revoked>>

\* CreateSession: one transaction drops what is over and stores the new one.
CreateSession(t) ==
  /\ t \notin issued /\ issued' = issued \cup {t}
  /\ rows' = {s \in rows : ~Expired(s, now)} \cup {t}
  /\ expires' = [expires EXCEPT ![t] = now + TTL]
  /\ UNCHANGED <<now, revoked>>

\* SessionByTokenHash, for the time the caller took before it waited for the
\* database's only connection.
Valid(t, time) == t \in rows /\ ~Expired(t, time)

\* DeleteSession.
DeleteSession(t) ==
  /\ rows' = rows \ {t} /\ revoked' = revoked \cup {t}
  /\ UNCHANGED <<now, issued, expires>>

=============================================================================
