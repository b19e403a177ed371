-------------------------- MODULE KioskSessionProofs --------------------------
(***************************************************************************)
(* TypeOK is inductive as it stands: the counter of failed attempts stays  *)
(* within MAX_ATTEMPTS because only an attempt that MayTry lets through    *)
(* counts.  NoCookieIsYounger is inductive beside it, and the timeout      *)
(* follows: who acts by a checked cookie has a stamp within the timeout,   *)
(* and the time he has been silent for is at most the age of that stamp.   *)
(* EntryCountsFailures relates the counter to the failures it stands for;  *)
(* sums of failures over ages are sizes of sets, so that the theorems on   *)
(* finite sets apply.                                                      *)
(***************************************************************************)
EXTENDS KioskSession, FiniteSetTheorems, TLAPS

(* Ages grow by one up to their bound. *)
LEMMA OlderType ==
    ASSUME NEW bound \in Nat, NEW age \in 0..bound
    PROVE  Older(age, bound) \in 0..bound
BY DEF Older

(* Growing old together keeps an order. *)
LEMMA OlderMonotone ==
    ASSUME NEW bound \in Nat, NEW a \in 0..bound, NEW b \in 0..bound, a <= b
    PROVE  Older(a, bound) <= Older(b, bound)
BY DEF Older

(* What the handlers and the clock make of a cookie is a cookie. *)
LEMMA CookieTypes ==
    ASSUME NEW c \in Cookie
    PROVE  /\ \A k \in Kiosks \cup {None} : [c EXCEPT !.kiosk = k] \in Cookie
           /\ \A u \in Users \cup {None} : [c EXCEPT !.login = u] \in Cookie
           /\ \A u \in Users : [c EXCEPT !.borrower = u, !.idle = 0] \in Cookie
           /\ SignedOut(c) \in Cookie
           /\ Touched(c) \in Cookie
           /\ AgedCookie(c) \in Cookie
<1>0. Timeout + 1 \in Nat
  BY TimesAssumption
<1>1. 0 \in Ages
  BY <1>0 DEF Ages
<1>2. SignedOut(c) \in Cookie
  BY <1>1 DEF SignedOut, Cookie
<1>3. Touched(c) \in Cookie
  BY <1>1, <1>2 DEF Touched, Cookie
<1>4. AgedCookie(c) \in Cookie
  BY <1>0, OlderType DEF AgedCookie, Cookie, Ages
<1>5. QED
  BY <1>1, <1>2, <1>3, <1>4 DEF Cookie

-----------------------------------------------------------------------------
(* Types *)

(* The first state has the types. *)
LEMMA InitTypeOK == Init => TypeOK
BY TimesAssumption, NoneAssumption DEF Init, TypeOK, Nobody, NoFailures, NoEntry, Cookie, Ages

(* A handler that answers with a cookie keeps the types of the session.      *)
LEMMA RepliesType ==
    ASSUME TypeOK, NEW c \in Cookie, Replies(c)
    PROVE  /\ users' \subseteq Users /\ kiosks' \subseteq Kiosks
           /\ jar' \in Cookie /\ answers' \subseteq Cookie
BY DEF Replies, TypeOK

(* So does one that writes nothing else. *)
LEMMA CookieOnlyType ==
    ASSUME TypeOK, NEW c \in Cookie, CookieOnly(c)
    PROVE  TypeOK'
<1>1. Replies(c)
  BY DEF CookieOnly
<1>2. acted' \in [who : Users \cup {None}, checked : BOOLEAN]
  BY DEF CookieOnly, Nobody
<1>3. QED
  BY <1>1, <1>2, RepliesType DEF TypeOK, CookieOnly

(* The counter stays within its bounds when an attempt fails. *)
LEMMA FailedType ==
    ASSUME TypeOK, MayTry
    PROVE  Failed \in Entry
<1>1. CASE entry = NoEntry \/ entry.first > WINDOW_SECONDS
  BY <1>1, TimesAssumption DEF Failed, Entry
<1>2. CASE ~(entry = NoEntry \/ entry.first > WINDOW_SECONDS)
  <2>1. entry \in Entry /\ entry.count < MAX_ATTEMPTS
    BY <1>2 DEF TypeOK, MayTry
  <2> DEFINE count == entry.count + 1
             locked == IF entry.count + 1 >= MAX_ATTEMPTS THEN LOCKOUT_SECONDS ELSE entry.locked
  <2>2. count \in 1..MAX_ATTEMPTS /\ locked \in 0..LOCKOUT_SECONDS
    BY <2>1, TimesAssumption DEF Entry
  <2>3. Failed = [entry EXCEPT !.count = count, !.locked = locked]
    BY <1>2 DEF Failed
  <2> HIDE DEF count, locked
  <2>4. QED
    BY <2>1, <2>2, <2>3 DEF Entry
<1>3. QED
  BY <1>1, <1>2

(* One more failure is counted. *)
LEMMA FailuresType ==
    ASSUME TypeOK
    PROVE  [failures EXCEPT ![0] = @ + 1] \in [0..WINDOW_SECONDS -> Nat]
BY TimesAssumption DEF TypeOK

(* Every handler of the session keeps the types. *)
LEMMA SessionStepType ==
    ASSUME TypeOK, SessionStep
    PROVE  TypeOK'
<1>0. jar \in Cookie
  BY DEF TypeOK
<1>1. CASE NoKiosk
  BY <1>0, <1>1, CookieTypes, CookieOnlyType DEF NoKiosk
<1>2. CASE KioskDeactivate
  <2>1. SignedOut(jar) \in Cookie
    BY <1>0, CookieTypes
  <2>2. QED
    BY <1>2, <2>1, CookieTypes, CookieOnlyType DEF KioskDeactivate
<1>3. CASE KioskLogout
  BY <1>0, <1>3, CookieTypes, CookieOnlyType DEF KioskLogout
<1>4. CASE LogoutUser
  BY <1>0, <1>4, CookieTypes, CookieOnlyType DEF LogoutUser
<1>5. CASE SameCookie
  BY <1>0, <1>5, CookieOnlyType DEF SameCookie
<1>6. CASE \E u \in Users : Login(u)
  BY <1>0, <1>6, CookieTypes, CookieOnlyType DEF Login
<1>7. CASE \E k \in Kiosks : KioskActivate(k)
  <2>1. SignedOut(jar) \in Cookie
    BY <1>0, CookieTypes
  <2>2. PICK k \in Kiosks : KioskActivate(k)
    BY <1>7
  <2>3. [SignedOut(jar) EXCEPT !.kiosk = k] \in Cookie
    BY <2>1, CookieTypes
  <2>4. QED
    BY <2>2, <2>3, CookieOnlyType DEF KioskActivate
<1>8. ASSUME ActsAsBorrower
      PROVE  TypeOK'
  <2>1. Replies(Touched(jar)) /\ Touched(jar) \in Cookie
    BY <1>0, <1>8, CookieTypes DEF ActsAsBorrower
  <2>2. silent' \in [Users -> Ages]
    BY <1>8, TimesAssumption DEF ActsAsBorrower, TypeOK, Active, Ages, Cookie
  <2>3. acted' \in [who : Users \cup {None}, checked : BOOLEAN]
    BY <1>0, <1>8 DEF ActsAsBorrower, Nobody, Cookie
  <2>4. QED
    BY <1>8, <2>1, <2>2, <2>3, RepliesType DEF ActsAsBorrower, TypeOK
<1>9. CASE CartAddLoggedIn
  <2>1. acted' \in [who : Users \cup {None}, checked : BOOLEAN]
    BY <1>9 DEF CartAddLoggedIn, TypeOK
  <2>2. QED
    BY <1>0, <1>9, <2>1, RepliesType DEF CartAddLoggedIn, TypeOK
<1>10. QED
  BY <1>1, <1>2, <1>3, <1>4, <1>5, <1>6, <1>7, <1>8, <1>9 DEF SessionStep, KioskPage, CartActor

(* So do the attempts to get in. *)
LEMMA AuthStepType ==
    ASSUME TypeOK, AuthStep
    PROVE  TypeOK'
<1>0. jar \in Cookie
  BY DEF TypeOK
<1>1. CASE \E u \in Users : KioskAuth(u)
  <2>1. PICK u \in Users : KioskAuth(u)
    BY <1>1
  <2>2. [jar EXCEPT !.borrower = u, !.idle = 0] \in Cookie
    BY <1>0, CookieTypes
  <2>3. silent' \in [Users -> Ages] /\ failures' \in [0..WINDOW_SECONDS -> Nat]
    BY <2>1, TimesAssumption DEF KioskAuth, TypeOK, NoFailures, Ages
  <2>4. acted' \in [who : Users \cup {None}, checked : BOOLEAN]
    BY <2>1 DEF KioskAuth, Nobody
  <2>5. QED
    BY <2>1, <2>2, <2>3, <2>4, RepliesType DEF KioskAuth, TypeOK
<1>2. CASE KioskAuthFails
  <2>1. entry' \in Entry /\ failures' \in [0..WINDOW_SECONDS -> Nat]
    BY <1>2, FailedType, FailuresType DEF KioskAuthFails
  <2>2. acted' \in [who : Users \cup {None}, checked : BOOLEAN]
    BY <1>2 DEF KioskAuthFails, Nobody
  <2>3. QED
    BY <1>0, <1>2, <2>1, <2>2, RepliesType DEF KioskAuthFails, TypeOK
<1>3. CASE KioskAuthBlocked
  <2>1. acted' \in [who : Users \cup {None}, checked : BOOLEAN]
    BY <1>3 DEF KioskAuthBlocked, Nobody
  <2>2. QED
    BY <1>0, <1>3, <2>1, RepliesType DEF KioskAuthBlocked, TurnedAway, TypeOK
<1>4. QED
  BY <1>1, <1>2, <1>3 DEF AuthStep

(* The clock keeps them. *)
LEMMA TickType ==
    ASSUME TypeOK, Tick
    PROVE  TypeOK'
<1>1. jar' \in Cookie /\ answers' \subseteq Cookie
  BY CookieTypes DEF Tick, TypeOK
<1>2. entry' \in Entry \cup {NoEntry}
  <2>1. CASE entry = NoEntry
    BY <2>1 DEF Tick, EntryOfWindow, AgedEntry
  <2>2. CASE entry # NoEntry
    <3>1. entry \in Entry
      BY <2>2 DEF TypeOK
    <3>2. Older(entry.first, WINDOW_SECONDS + 1) \in 0..(WINDOW_SECONDS + 1)
      BY <3>1, OlderType, TimesAssumption DEF Entry
    <3> DEFINE first == Older(entry.first, WINDOW_SECONDS + 1)
               locked == IF entry.locked > 0 THEN entry.locked - 1 ELSE 0
    <3>3. locked \in 0..LOCKOUT_SECONDS
      BY <3>1, TimesAssumption DEF Entry
    <3>4. entry' = [entry EXCEPT !.first = first, !.locked = locked]
      BY <2>2 DEF Tick, EntryOfWindow, AgedEntry
    <3> HIDE DEF first, locked
    <3>5. first \in 0..(WINDOW_SECONDS + 1)
      BY <3>2 DEF first
    <3>6. entry' \in Entry
      BY <3>1, <3>3, <3>4, <3>5 DEF Entry
    <3>7. QED
      BY <3>6
  <2>3. QED
    BY <2>1, <2>2
<1>3. silent' \in [Users -> Ages]
  BY OlderType, TimesAssumption DEF Tick, TypeOK, Ages
<1>4. failures' \in [0..WINDOW_SECONDS -> Nat]
  BY TimesAssumption DEF Tick, TypeOK
<1>5. QED
  BY <1>1, <1>2, <1>3, <1>4 DEF Tick, TypeOK, Nobody

(* Every step keeps them. *)
LEMMA NextTypeOK == TypeOK /\ [Next]_vars => TypeOK'
<1> SUFFICES ASSUME TypeOK, [Next]_vars
             PROVE  TypeOK'
  OBVIOUS
<1>0. Nobody \in [who : Users \cup {None}, checked : BOOLEAN]
  BY DEF Nobody
<1>1. CASE BrowserStep
  <2>1. PICK c \in answers : Receive(c) \/ Lose(c)
    BY <1>1 DEF BrowserStep
  <2>2. jar' \in Cookie /\ answers' \subseteq Cookie
    BY <2>1 DEF Receive, Lose, TypeOK
  <2>3. QED
    BY <1>0, <2>1, <2>2 DEF Receive, Lose, TypeOK
<1>2. CASE AdminStep
  <2>1. users' \subseteq Users /\ kiosks' \subseteq Kiosks
    BY <1>2 DEF AdminStep, DeleteUser, DeleteKiosk, TypeOK
  <2>2. acted' = Nobody /\ UNCHANGED <<jar, answers, entry, silent, failures>>
    BY <1>2 DEF AdminStep, DeleteUser, DeleteKiosk
  <2>3. QED
    BY <1>0, <2>1, <2>2 DEF TypeOK
<1>3. CASE UNCHANGED vars
  BY <1>3 DEF vars, TypeOK
<1>4. QED
  BY <1>1, <1>2, <1>3, SessionStepType, AuthStepType, TickType DEF Next

(* The counter of failed attempts and every stamp stay within their bounds.  *)
THEOREM TypeCorrect == Spec => []TypeOK
<1>1. QED
  BY InitTypeOK, NextTypeOK, PTL DEF Spec

-----------------------------------------------------------------------------
(* The timeout *)

(* What is shown of a cookie: its stamp is no younger than its borrower's    *)
(* last sign of life.                                                        *)
OldEnough(c, quiet) == c.borrower # None => c.idle >= quiet[c.borrower]

(* A user is heard from, and is silent for no longer than before. *)
Quieter(quiet) == \A u \in Users : quiet[u] <= silent[u]

(* Signing out, or moving to another kiosk, makes no cookie younger.         *)
LEMMA SignedOutOld ==
    ASSUME NEW c \in Cookie, NEW quiet
    PROVE  OldEnough(SignedOut(c), quiet)
BY DEF OldEnough, SignedOut, Cookie

(* Where users are only heard from, the cookies that are anywhere stay old   *)
(* enough, if the new one is.                                                *)
LEMMA RepliesOld ==
    ASSUME TypeOK, NoCookieIsYounger, NEW c \in Cookie, Replies(c), silent' \in [Users -> Ages],
           Quieter(silent'), OldEnough(c, silent')
    PROVE  NoCookieIsYounger'
<1> SUFFICES ASSUME NEW d \in Cookies', d.borrower # None
             PROVE  d.idle >= silent'[d.borrower]
  BY DEF NoCookieIsYounger
<1>1. CASE d = c
  BY <1>1 DEF OldEnough
<1>2. CASE d # c
  <2>1. d \in Cookies
    BY <1>2 DEF Cookies, Replies
  <2>2. d \in Cookie
    BY <2>1 DEF Cookies, TypeOK
  <2>3. d.borrower \in Users /\ d.idle \in Int
    BY <2>2, TimesAssumption DEF Cookie, Ages
  <2>4. d.idle >= silent[d.borrower] /\ silent'[d.borrower] <= silent[d.borrower]
    BY <2>1, <2>3 DEF NoCookieIsYounger, Quieter
  <2>5. silent[d.borrower] \in Int /\ silent'[d.borrower] \in Int
    BY <2>3, TimesAssumption DEF TypeOK, Ages
  <2>6. QED
    BY <2>3, <2>4, <2>5
<1>3. QED
  BY <1>1, <1>2

(* Nobody is heard from: what the handlers that leave silent alone need.     *)
LEMMA SameSilence ==
    ASSUME TypeOK, UNCHANGED silent
    PROVE  silent' \in [Users -> Ages] /\ Quieter(silent')
BY TimesAssumption DEF TypeOK, Quieter, Ages

(* A cookie whose borrower and stamp are those of the browser's is as old.   *)
LEMMA LikeJarOld ==
    ASSUME TypeOK, NoCookieIsYounger, UNCHANGED silent, NEW c \in Cookie,
           c.borrower = jar.borrower, c.idle = jar.idle
    PROVE  OldEnough(c, silent')
BY DEF OldEnough, NoCookieIsYounger, Cookies

(* A handler that writes nothing but a cookie that is old enough.            *)
LEMMA CookieOnlyOld ==
    ASSUME TypeOK, NoCookieIsYounger, NEW c \in Cookie, CookieOnly(c),
           c.borrower = None \/ (c.borrower = jar.borrower /\ c.idle = jar.idle)
    PROVE  NoCookieIsYounger'
<1>1. Replies(c) /\ UNCHANGED silent
  BY DEF CookieOnly
<1>2. OldEnough(c, silent')
  BY <1>1, LikeJarOld DEF OldEnough
<1>3. QED
  BY <1>1, <1>2, SameSilence, RepliesOld

(* Every handler of the session, the checks of the borrower among them.      *)
LEMMA SessionStepOld ==
    ASSUME TypeOK, NoCookieIsYounger, SessionStep
    PROVE  NoCookieIsYounger'
<1>0. jar \in Cookie /\ SignedOut(jar) \in Cookie
  BY CookieTypes DEF TypeOK
<1>1. CASE NoKiosk
  <2> DEFINE c == [jar EXCEPT !.kiosk = None]
  <2>1. c \in Cookie /\ c.borrower = jar.borrower /\ c.idle = jar.idle
    BY <1>0 DEF Cookie
  <2>2. QED
    BY <1>1, <2>1, CookieOnlyOld DEF NoKiosk
<1>2. CASE KioskDeactivate
  <2> DEFINE c == [SignedOut(jar) EXCEPT !.kiosk = None]
  <2>1. c \in Cookie /\ c.borrower = None
    BY <1>0 DEF Cookie, SignedOut
  <2>2. QED
    BY <1>2, <2>1, CookieOnlyOld DEF KioskDeactivate
<1>3. CASE KioskLogout
  <2>1. SignedOut(jar).borrower = None
    BY <1>0 DEF Cookie, SignedOut
  <2>2. QED
    BY <1>0, <1>3, <2>1, CookieOnlyOld DEF KioskLogout
<1>4. CASE LogoutUser
  <2> DEFINE c == [jar EXCEPT !.login = None]
  <2>1. c \in Cookie /\ c.borrower = jar.borrower /\ c.idle = jar.idle
    BY <1>0 DEF Cookie
  <2>2. QED
    BY <1>4, <2>1, CookieOnlyOld DEF LogoutUser
<1>5. CASE SameCookie
  BY <1>0, <1>5, CookieOnlyOld DEF SameCookie
<1>6. CASE \E u \in Users : Login(u)
  <2>1. PICK u \in Users : Login(u)
    BY <1>6
  <2> DEFINE c == [jar EXCEPT !.login = u]
  <2>2. c \in Cookie /\ c.borrower = jar.borrower /\ c.idle = jar.idle
    BY <1>0 DEF Cookie
  <2>3. QED
    BY <2>1, <2>2, CookieOnlyOld DEF Login
<1>7. CASE \E k \in Kiosks : KioskActivate(k)
  <2>1. PICK k \in Kiosks : KioskActivate(k)
    BY <1>7
  <2> DEFINE c == [SignedOut(jar) EXCEPT !.kiosk = k]
  <2>2. c \in Cookie /\ c.borrower = None
    BY <1>0 DEF Cookie, SignedOut
  <2>3. QED
    BY <2>1, <2>2, CookieOnlyOld DEF KioskActivate
<1>8. ASSUME ActsAsBorrower
      PROVE  NoCookieIsYounger'
  <2>1. Replies(Touched(jar)) /\ Touched(jar) \in Cookie
    BY <1>0, <1>8, CookieTypes DEF ActsAsBorrower
  <2>2. CASE Active(jar)
    <3>1. Touched(jar) = [jar EXCEPT !.idle = 0] /\ jar.borrower \in Users
      BY <1>0, <2>2 DEF Touched, Active, Cookie
    <3>2. silent' = [silent EXCEPT ![jar.borrower] = 0]
      BY <1>8, <2>2 DEF ActsAsBorrower
    <3>3. silent' \in [Users -> Ages] /\ Quieter(silent')
      BY <3>1, <3>2, TimesAssumption DEF TypeOK, Quieter, Ages
    <3>4. OldEnough(Touched(jar), silent')
      BY <1>0, <3>1, <3>2 DEF OldEnough, TypeOK, Cookie
    <3>5. QED
      BY <2>1, <3>3, <3>4, RepliesOld
  <2>3. CASE ~Active(jar)
    <3>1. UNCHANGED silent /\ Touched(jar) = SignedOut(jar)
      BY <1>8, <2>3 DEF ActsAsBorrower, Touched
    <3>2. OldEnough(Touched(jar), silent')
      BY <1>0, <3>1, SignedOutOld
    <3>3. QED
      BY <2>1, <3>1, <3>2, SameSilence, RepliesOld
  <2>4. QED
    BY <2>2, <2>3
<1>9. CASE CartAddLoggedIn
  <2>1. Replies(jar) /\ UNCHANGED silent
    BY <1>9 DEF CartAddLoggedIn
  <2>2. QED
    BY <1>0, <2>1, SameSilence, LikeJarOld, RepliesOld
<1>10. QED
  BY <1>1, <1>2, <1>3, <1>4, <1>5, <1>6, <1>7, <1>8, <1>9 DEF SessionStep, KioskPage, CartActor

(* Who gets in is heard from; who does not leaves the session as it was.     *)
LEMMA AuthStepOld ==
    ASSUME TypeOK, NoCookieIsYounger, AuthStep
    PROVE  NoCookieIsYounger'
<1>0. jar \in Cookie
  BY DEF TypeOK
<1>1. CASE \E u \in Users : KioskAuth(u)
  <2>1. PICK u \in Users : KioskAuth(u)
    BY <1>1
  <2> DEFINE c == [jar EXCEPT !.borrower = u, !.idle = 0]
  <2>2. Replies(c) /\ silent' = [silent EXCEPT ![u] = 0]
    BY <2>1 DEF KioskAuth
  <2>3. c \in Cookie
    BY <1>0, CookieTypes
  <2>4. silent' \in [Users -> Ages] /\ Quieter(silent')
    BY <2>2, TimesAssumption DEF TypeOK, Quieter, Ages
  <2>5. c.borrower = u /\ c.idle = 0 /\ silent'[u] = 0
    BY <1>0, <2>2 DEF TypeOK, Cookie
  <2>6. OldEnough(c, silent')
    BY <2>5 DEF OldEnough
  <2>7. QED
    BY <2>2, <2>3, <2>4, <2>6, RepliesOld
<1>2. CASE KioskAuthFails \/ KioskAuthBlocked
  <2>1. Replies(jar) /\ UNCHANGED silent
    BY <1>2 DEF KioskAuthFails, KioskAuthBlocked
  <2>2. QED
    BY <1>0, <2>1, SameSilence, LikeJarOld, RepliesOld
<1>3. QED
  BY <1>1, <1>2 DEF AuthStep

(* Stamps and silence grow old together. *)
LEMMA TickOld ==
    ASSUME TypeOK, NoCookieIsYounger, Tick
    PROVE  NoCookieIsYounger'
<1> SUFFICES ASSUME NEW d \in Cookies', d.borrower # None
             PROVE  d.idle >= silent'[d.borrower]
  BY DEF NoCookieIsYounger
<1>1. PICK c \in Cookies : d = AgedCookie(c)
  BY DEF Cookies, Tick
<1>2. c \in Cookie
  BY DEF Cookies, TypeOK
<1>3. /\ c.borrower # None /\ c.borrower \in Users /\ c.idle \in 0..(Timeout + 1)
      /\ d.borrower = c.borrower /\ d.idle = Older(c.idle, Timeout + 1)
  BY <1>1, <1>2 DEF AgedCookie, Cookie, Ages
<1>4. silent[c.borrower] \in 0..(Timeout + 1) /\ silent[c.borrower] <= c.idle
  BY <1>3, TimesAssumption DEF TypeOK, Ages, NoCookieIsYounger
<1>5. silent'[c.borrower] = Older(silent[c.borrower], Timeout + 1)
  BY <1>3 DEF Tick
<1>6. Older(silent[c.borrower], Timeout + 1) <= Older(c.idle, Timeout + 1)
  BY <1>3, <1>4, OlderMonotone, TimesAssumption
<1>7. Older(silent[c.borrower], Timeout + 1) \in Int /\ Older(c.idle, Timeout + 1) \in Int
  BY <1>3, <1>4, OlderType, TimesAssumption
<1>8. QED
  BY <1>3, <1>5, <1>6, <1>7

(* Answers only move cookies; the administrator touches none. *)
LEMMA NextOld == TypeOK /\ NoCookieIsYounger /\ [Next]_vars => NoCookieIsYounger'
<1> SUFFICES ASSUME TypeOK, NoCookieIsYounger, [Next]_vars
             PROVE  NoCookieIsYounger'
  OBVIOUS
<1>1. CASE BrowserStep \/ AdminStep \/ UNCHANGED vars
  <2>1. UNCHANGED silent /\ Cookies' \subseteq Cookies
    BY <1>1 DEF BrowserStep, AdminStep, Receive, Lose, DeleteUser, DeleteKiosk, vars, Cookies
  <2>2. QED
    BY <2>1 DEF NoCookieIsYounger
<1>2. QED
  BY <1>1, SessionStepOld, AuthStepOld, TickOld DEF Next

(* Late answers bring back no cookie younger than its borrower's last sign   *)
(* of life.                                                                  *)
THEOREM NoCookieIsYoungerThm == Spec => []NoCookieIsYounger
<1>1. Init => NoCookieIsYounger
  BY DEF Init, NoCookieIsYounger, Cookies
<1>2. QED
  BY <1>1, InitTypeOK, NextTypeOK, NextOld, PTL DEF Spec

(* Who acts by a checked cookie has a stamp within the timeout. *)
LEMMA ActsInTime ==
    ASSUME TypeOK, NoCookieIsYounger, Next
    PROVE  acted'.who # None /\ acted'.checked => silent[acted'.who] <= Timeout
<1>1. ASSUME ActsAsBorrower
      PROVE  acted'.who # None => silent[acted'.who] <= Timeout
  <2>1. CASE Active(jar) /\ jar.borrower \in users
    <3>1. acted'.who = jar.borrower
      BY <1>1, <2>1 DEF ActsAsBorrower
    <3>2. jar.idle <= Timeout /\ jar.borrower # None
      BY <2>1, TimesAssumption DEF Active, Expired, TypeOK, Cookie, Ages
    <3>3. silent[jar.borrower] <= jar.idle
      BY <3>2 DEF NoCookieIsYounger, Cookies
    <3>4. jar.idle \in Int /\ silent[jar.borrower] \in Int
      BY <2>1, TimesAssumption DEF TypeOK, Cookie, Ages
    <3>5. QED
      BY <3>1, <3>2, <3>3, <3>4, TimesAssumption
  <2>2. CASE ~(Active(jar) /\ jar.borrower \in users)
    BY <1>1, <2>2 DEF ActsAsBorrower, Nobody
  <2>3. QED
    BY <2>1, <2>2
<1>2. CASE KioskPage \/ CartActor
  BY <1>1, <1>2 DEF KioskPage, CartActor
<1>3. CASE CartAddLoggedIn
  BY <1>3 DEF CartAddLoggedIn
<1>4. ASSUME acted' = Nobody
      PROVE  acted'.who = None
  BY <1>4 DEF Nobody
<1>5. CASE SessionStep /\ ~(KioskPage \/ CartActor \/ CartAddLoggedIn)
  <2>1. ASSUME NEW c, CookieOnly(c)
        PROVE  acted' = Nobody
    BY <2>1 DEF CookieOnly
  <2>2. acted' = Nobody
    BY <1>5, <2>1 DEF SessionStep, NoKiosk, KioskDeactivate, KioskLogout, LogoutUser, SameCookie,
                      Login, KioskActivate
  <2>3. QED
    BY <1>4, <2>2
<1>6. CASE AuthStep \/ BrowserStep \/ AdminStep \/ Tick
  <2>1. acted' = Nobody
    BY <1>6 DEF AuthStep, KioskAuth, KioskAuthFails, KioskAuthBlocked, BrowserStep, Receive, Lose,
                AdminStep, DeleteUser, DeleteKiosk, Tick
  <2>2. QED
    BY <1>4, <2>1
<1>7. QED
  BY <1>2, <1>3, <1>5, <1>6 DEF Next, SessionStep

(* Nobody who has been silent for longer than the timeout acts by a cookie   *)
(* whose borrower is asked for.                                              *)
THEOREM IdleBorrowersAreOutThm == Spec => IdleBorrowersAreOut
<1>1. TypeOK /\ NoCookieIsYounger /\ [Next]_vars
      => [acted'.who # None /\ acted'.checked => silent[acted'.who] <= Timeout]_vars
  BY ActsInTime
<1>2. QED
  BY <1>1, TypeCorrect, NoCookieIsYoungerThm, PTL DEF Spec, IdleBorrowersAreOut

-----------------------------------------------------------------------------
(* The counter of failed attempts *)

Window == 0..WINDOW_SECONDS
Counts == [Window -> Nat]

(* The attempts that f counts at the given ages. *)
Aged(f, ages) == UNION {{a} \X (1..f[a]) : a \in ages}
CountAt(f, ages) == Cardinality(Aged(f, ages))

(* At one age there are as many as are counted. *)
LEMMA OneAge ==
    ASSUME NEW a, NEW n \in Nat
    PROVE  IsFiniteSet({a} \X (1..n)) /\ Cardinality({a} \X (1..n)) = n
<1>1. IsFiniteSet({a}) /\ Cardinality({a}) = 1
  BY FS_Singleton
<1>2. IsFiniteSet(1..n) /\ Cardinality(1..n) = n
  BY FS_Interval
<1>3. IsFiniteSet({a} \X (1..n)) /\ Cardinality({a} \X (1..n)) = 1 * n
  BY <1>1, <1>2, FS_Product, Zenon
<1>4. QED
  BY <1>3

(* There are finitely many attempts, and fewer in a part of the window.      *)
LEMMA AgedFinite ==
    ASSUME NEW f \in Counts, NEW ages \in SUBSET Window
    PROVE  IsFiniteSet(Aged(f, ages)) /\ CountAt(f, ages) \in Nat
<1> DEFINE S == {{a} \X (1..f[a]) : a \in ages}
           g == [a \in ages |-> {a} \X (1..f[a])]
<1>1. IsFiniteSet(ages)
  <2>1. IsFiniteSet(0..WINDOW_SECONDS)
    BY FS_Interval, TimesAssumption
  <2>2. QED
    BY <2>1, FS_Subset DEF Window
<1>2. g \in Surjection(ages, S)
  BY DEF Surjection
<1>3. IsFiniteSet(S)
  BY <1>1, <1>2, FS_Surjection
<1>4. ASSUME NEW T \in S
      PROVE  IsFiniteSet(T)
  <2>1. PICK a \in ages : T = {a} \X (1..f[a])
    OBVIOUS
  <2>2. f[a] \in Nat
    BY DEF Counts
  <2>3. QED
    BY <2>1, <2>2, OneAge
<1> HIDE DEF S
<1>5. IsFiniteSet(UNION S)
  BY <1>3, <1>4, FS_UNION
<1>6. QED
  BY <1>5, FS_CardinalityType DEF Aged, CountAt, S

LEMMA FewerAges ==
    ASSUME NEW f \in Counts, NEW ages \in SUBSET Window, NEW fewer \in SUBSET ages
    PROVE  CountAt(f, fewer) <= CountAt(f, ages)
<1>1. Aged(f, fewer) \subseteq Aged(f, ages)
  BY DEF Aged
<1>2. QED
  BY <1>1, AgedFinite, FS_Subset DEF CountAt

(* The counts at all ages but one, and at that one. *)
LEMMA OneAgeMore ==
    ASSUME NEW f \in Counts, NEW ages \in SUBSET Window, NEW a \in Window, a \notin ages
    PROVE  CountAt(f, ages \cup {a}) = CountAt(f, ages) + f[a]
<1>1. f[a] \in Nat
  BY DEF Counts
<1> DEFINE own == {a} \X (1..f[a])
<1>2. Aged(f, ages \cup {a}) = Aged(f, ages) \cup own /\ Aged(f, ages) \cap own = {}
  BY DEF Aged
<1>3. IsFiniteSet(own) /\ Cardinality(own) = f[a]
  BY <1>1, OneAge
<1> HIDE DEF own
<1>4. Cardinality(Aged(f, ages) \cup own) =
        Cardinality(Aged(f, ages)) + Cardinality(own) - Cardinality(Aged(f, ages) \cap own)
  BY <1>3, AgedFinite, FS_Union
<1>5. Cardinality(Aged(f, ages) \cap own) = 0
  BY <1>2, FS_EmptySet
<1>6. Cardinality(Aged(f, ages)) \in Nat
  BY AgedFinite DEF CountAt
<1>7. Cardinality(Aged(f, ages) \cup own) = Cardinality(Aged(f, ages)) + f[a]
  BY <1>1, <1>3, <1>4, <1>5, <1>6
<1>8. QED
  BY <1>2, <1>7, Zenon DEF CountAt

(* Two parts of the window hold no less than both together. *)
LEMMA AgesTogether ==
    ASSUME NEW f \in Counts, NEW S \in SUBSET Window, NEW T \in SUBSET Window
    PROVE  CountAt(f, S \cup T) <= CountAt(f, S) + CountAt(f, T)
<1>1. Aged(f, S \cup T) = Aged(f, S) \cup Aged(f, T)
  BY DEF Aged
<1>2. /\ IsFiniteSet(Aged(f, S)) /\ IsFiniteSet(Aged(f, T))
      /\ Cardinality(Aged(f, S)) \in Nat /\ Cardinality(Aged(f, T)) \in Nat
  BY AgedFinite DEF CountAt
<1>3. /\ Cardinality(Aged(f, S) \cup Aged(f, T)) =
           Cardinality(Aged(f, S)) + Cardinality(Aged(f, T))
           - Cardinality(Aged(f, S) \cap Aged(f, T))
      /\ Cardinality(Aged(f, S) \cap Aged(f, T)) \in Nat
  BY <1>2, FS_Union, FS_Intersection, FS_CardinalityType
<1>4. Cardinality(Aged(f, S) \cup Aged(f, T)) <= Cardinality(Aged(f, S)) + Cardinality(Aged(f, T))
  BY <1>2, <1>3
<1>5. QED
  BY <1>1, <1>4, Zenon DEF CountAt

(* What f counts, g counts at ages that are greater by one. *)
LEMMA AgesGrow ==
    ASSUME NEW f \in Counts, NEW g \in Counts,
           NEW young \in SUBSET Window, NEW old \in SUBSET Window,
           \A a \in old : g[a] = 0 \/ (a - 1 \in young /\ g[a] = f[a - 1])
    PROVE  CountAt(g, old) <= CountAt(f, young)
<1> DEFINE younger == [x \in Aged(g, old) |-> <<x[1] - 1, x[2]>>]
<1>1. ASSUME NEW x \in Aged(g, old)
      PROVE  /\ x = <<x[1], x[2]>> /\ x[1] \in Int
             /\ younger[x] \in Aged(f, young)
  <2>1. PICK a \in old : x \in {a} \X (1..g[a])
    BY DEF Aged
  <2>2. x[1] = a /\ x[2] \in 1..g[a] /\ x = <<x[1], x[2]>> /\ a \in Int
    BY <2>1, TimesAssumption DEF Window
  <2>3. a - 1 \in young /\ g[a] = f[a - 1]
    BY <2>2
  <2>4. <<a - 1, x[2]>> \in {a - 1} \X (1..f[a - 1])
    BY <2>2, <2>3
  <2>5. <<a - 1, x[2]>> \in Aged(f, young)
    BY <2>3, <2>4 DEF Aged
  <2>6. QED
    BY <2>2, <2>5
<1>2. younger \in [Aged(g, old) -> Aged(f, young)]
  BY <1>1
<1>3. ASSUME NEW x \in Aged(g, old), NEW y \in Aged(g, old), younger[x] = younger[y]
      PROVE  x = y
  <2>1. x[1] - 1 = y[1] - 1 /\ x[2] = y[2]
    BY <1>3
  <2>5. x[1] \in Int /\ y[1] \in Int
    BY <1>1
  <2>2. x[1] = y[1]
    <3>1. \A i, j \in Int : i - 1 = j - 1 => i = j
      OBVIOUS
    <3>2. QED
      BY <2>1, <2>5, <3>1
  <2>3. <<x[1], x[2]>> = <<y[1], y[2]>>
    BY <2>1, <2>2
  <2>4. QED
    BY <1>1, <2>3, Zenon
<1> HIDE DEF younger
<1>4. younger \in Injection(Aged(g, old), Aged(f, young))
  BY <1>2, <1>3 DEF Injection, IsInjective
<1>5. QED
  BY <1>4, AgedFinite, FS_Injection DEF CountAt

(* One attempt more. *)
LEMMA OneFailureMore ==
    ASSUME NEW f \in Counts, NEW ages \in SUBSET Window
    PROVE  CountAt([f EXCEPT ![0] = @ + 1], ages) <= CountAt(f, ages) + 1
<1> DEFINE g == [f EXCEPT ![0] = @ + 1]
<1>1. 0 \in Window /\ f[0] \in Nat /\ g[0] = f[0] + 1
  BY TimesAssumption DEF Window, Counts
<1>2. Aged(g, ages) \subseteq Aged(f, ages) \cup {<<0, f[0] + 1>>}
  <2> SUFFICES ASSUME NEW a \in ages, NEW x \in {a} \X (1..g[a])
               PROVE  x \in Aged(f, ages) \cup {<<0, f[0] + 1>>}
    BY DEF Aged
  <2>1. CASE a # 0
    <3>1. g[a] = f[a]
      BY <2>1 DEF Counts
    <3>2. QED
      BY <3>1 DEF Aged
  <2>2. CASE a = 0
    <3>1. x = <<0, x[2]>> /\ x[2] \in 1..(f[0] + 1)
      BY <1>1, <2>2
    <3>2. CASE x[2] = f[0] + 1
      BY <3>1, <3>2
    <3>3. CASE x[2] \in 1..f[0]
      <4>1. x \in {a} \X (1..f[a])
        BY <2>2, <3>1, <3>3
      <4>2. QED
        BY <4>1 DEF Aged
    <3>4. QED
      BY <1>1, <3>1, <3>2, <3>3
  <2>3. QED
    BY <2>1, <2>2
<1> HIDE DEF g
<1>3. IsFiniteSet(Aged(f, ages)) /\ CountAt(f, ages) \in Nat
  BY AgedFinite
<1>4. /\ IsFiniteSet(Aged(f, ages) \cup {<<0, f[0] + 1>>})
      /\ Cardinality(Aged(f, ages) \cup {<<0, f[0] + 1>>}) \in {CountAt(f, ages), CountAt(f, ages) + 1}
  BY <1>3, FS_AddElement DEF CountAt
<1>5. Cardinality(Aged(g, ages)) <= Cardinality(Aged(f, ages) \cup {<<0, f[0] + 1>>})
  BY <1>2, <1>4, FS_Subset
<1>6. IsFiniteSet(Aged(g, ages))
  BY <1>2, <1>4, FS_Subset
<1>7. Cardinality(Aged(g, ages)) \in Nat
  BY <1>6, FS_CardinalityType
<1>8. QED
  BY <1>3, <1>4, <1>5, <1>7 DEF CountAt, g

(* Nothing failed, nothing is counted. *)
LEMMA NoneAged ==
    ASSUME NEW ages \in SUBSET Window
    PROVE  CountAt(NoFailures, ages) = 0
<1>1. Aged(NoFailures, ages) = {}
  BY DEF Aged, NoFailures, Window
<1>2. QED
  BY <1>1, FS_EmptySet DEF CountAt

(* FailuresAged, in the terms of the lemmas. *)
LEMMA FailuresCounted ==
    ASSUME NEW ages
    PROVE  /\ Cardinality(FailuresAged(ages)) = CountAt(failures, ages)
           /\ Cardinality(FailuresAged(ages)') = CountAt(failures', ages)
BY DEF FailuresAged, CountAt, Aged

(* What EntryCountsFailures says of an entry e and counts f. *)
Matches(e, f) ==
    /\ e = NoEntry => f = NoFailures
    /\ e # NoEntry /\ e.first <= WINDOW_SECONDS
       => /\ f[e.first] > 0
          /\ CountAt(f, 0..e.first) <= e.count
          /\ CountAt(f, (e.first + 1)..WINDOW_SECONDS) < MAX_ATTEMPTS
    /\ e # NoEntry /\ e.first > WINDOW_SECONDS
       => f[0] = 0 /\ CountAt(f, Window) < MAX_ATTEMPTS

LEMMA EntryMatches == EntryCountsFailures <=> Matches(entry, failures)
BY DEF EntryCountsFailures, Matches, FailuresAged, CountAt, Aged, Window

LEMMA EntryMatchesNext == EntryCountsFailures' <=> Matches(entry', failures')
BY DEF EntryCountsFailures, Matches, FailuresAged, CountAt, Aged, Window

(* An attempt that fails is counted, or begins another window. *)
LEMMA FailedMatches ==
    ASSUME NEW e \in Entry \cup {NoEntry}, entry = e, NEW f \in Counts, Matches(e, f), MayTry
    PROVE  Matches(Failed, [f EXCEPT ![0] = @ + 1])
<1> DEFINE g == [f EXCEPT ![0] = @ + 1]
<1>1. WINDOW_SECONDS \in Nat /\ MAX_ATTEMPTS \in Nat \ {0} /\ 0 \in Window
  BY TimesAssumption DEF Window
<1>2. f[0] \in Nat /\ g \in Counts /\ g[0] = f[0] + 1
  BY <1>1 DEF Counts
<1>3. CASE e = NoEntry \/ e.first > WINDOW_SECONDS
  <2>1. Failed = [count |-> 1, first |-> 0, locked |-> 0] /\ Failed # NoEntry
    BY <1>3 DEF Failed, NoEntry
  <2>2. f[0] = 0
    BY <1>1, <1>3 DEF Matches, NoFailures, Window
  <2>3. CountAt(g, 0..0) <= 1
    <3>1. CountAt(g, {} \cup {0}) = CountAt(g, {}) + 1
      BY <1>1, <1>2, <2>2, OneAgeMore
    <3>2. CountAt(g, {}) = 0
      <4>1. Aged(g, {}) = {}
        BY DEF Aged
      <4>2. QED
        BY <4>1, FS_EmptySet DEF CountAt
    <3>3. 0..0 = {} \cup {0}
      OBVIOUS
    <3>4. QED
      BY <3>1, <3>2, <3>3
  <2>4. CountAt(g, 1..WINDOW_SECONDS) < MAX_ATTEMPTS
    <3>1. CountAt(f, Window) < MAX_ATTEMPTS
      BY <1>1, <1>3, NoneAged DEF Matches
    <3>2. 1..WINDOW_SECONDS \subseteq Window
      BY DEF Window
    <3>3. CountAt(f, 1..WINDOW_SECONDS) <= CountAt(f, Window)
      BY <3>2, FewerAges
    <3>4. Aged(g, 1..WINDOW_SECONDS) = Aged(f, 1..WINDOW_SECONDS)
      BY DEF Aged, Counts, Window
    <3>5. CountAt(f, 1..WINDOW_SECONDS) \in Nat /\ CountAt(f, Window) \in Nat
      BY <3>2, AgedFinite
    <3>6. QED
      BY <1>1, <3>1, <3>3, <3>4, <3>5 DEF CountAt
  <2>5. QED
    BY <1>1, <1>2, <2>1, <2>2, <2>3, <2>4 DEF Matches
<1>4. CASE e # NoEntry /\ e.first <= WINDOW_SECONDS
  <2>1. e \in Entry /\ e.count \in Nat /\ e.first \in Window /\ e.count < MAX_ATTEMPTS
    BY <1>1, <1>4 DEF Entry, MayTry, Window
  <2>2. /\ Failed # NoEntry /\ Failed.first = e.first /\ Failed.count = e.count + 1
    <3>0. ~(e.first > WINDOW_SECONDS)
      BY <1>1, <1>4, <2>1 DEF Window
    <3> DEFINE locked == IF e.count + 1 >= MAX_ATTEMPTS THEN LOCKOUT_SECONDS ELSE e.locked
    <3>1. Failed = [e EXCEPT !.count = e.count + 1, !.locked = locked]
      BY <1>4, <3>0 DEF Failed
    <3> HIDE DEF locked
    <3>2. Failed.first = e.first /\ Failed.count = e.count + 1
      BY <2>1, <3>1 DEF Entry
    <3>3. Failed.count # 0
      BY <2>1, <3>2
    <3>4. QED
      BY <3>2, <3>3 DEF NoEntry
  <2>3. g[e.first] > 0
    BY <1>2, <1>4, <2>1 DEF Matches, Counts
  <2>4. CountAt(g, 0..e.first) <= e.count + 1
    <3>1. 0..e.first \subseteq Window
      BY <1>1, <2>1 DEF Window
    <3>2. CountAt(g, 0..e.first) <= CountAt(f, 0..e.first) + 1
      BY <3>1, OneFailureMore
    <3>3. CountAt(f, 0..e.first) \in Nat /\ CountAt(g, 0..e.first) \in Nat
      BY <1>2, <3>1, AgedFinite
    <3>4. CountAt(f, 0..e.first) <= e.count
      BY <1>4 DEF Matches
    <3>5. QED
      BY <2>1, <3>2, <3>3, <3>4
  <2>5. CountAt(g, (e.first + 1)..WINDOW_SECONDS) < MAX_ATTEMPTS
    <3>1. Aged(g, (e.first + 1)..WINDOW_SECONDS) = Aged(f, (e.first + 1)..WINDOW_SECONDS)
      BY <2>1 DEF Aged, Counts, Window
    <3>2. QED
      BY <1>4, <3>1 DEF Matches, CountAt
  <2>6. ~(Failed.first > WINDOW_SECONDS)
    BY <1>1, <1>4, <2>1, <2>2 DEF Window
  <2>7. QED
    BY <2>2, <2>3, <2>4, <2>5, <2>6 DEF Matches
<1>5. e = NoEntry \/ e.first \in Int
  BY <1>1 DEF Entry
<1>6. \/ e = NoEntry \/ e.first > WINDOW_SECONDS
      \/ e # NoEntry /\ e.first <= WINDOW_SECONDS
  BY <1>1, <1>5
<1>7. QED
  BY <1>3, <1>4, <1>6, Zenon

(* The clock moves the entry and the attempts on together. *)
LEMMA TickMatches ==
    ASSUME TypeOK, Matches(entry, failures), Tick
    PROVE  Matches(entry', failures')
<1>1. WINDOW_SECONDS \in Nat /\ MAX_ATTEMPTS \in Nat \ {0} /\ 0 \in Window
  BY TimesAssumption DEF Window
<1>2. /\ failures \in Counts /\ failures' \in Counts
      /\ failures'[0] = 0
      /\ \A a \in Window \ {0} : a - 1 \in Window /\ failures'[a] = failures[a - 1]
  BY <1>1 DEF Tick, TypeOK, Counts, Window
<1>3. CASE entry = NoEntry
  <2>1. entry' = NoEntry
    BY <1>3 DEF Tick, EntryOfWindow, AgedEntry
  <2>2. failures' = NoFailures
    BY <1>1, <1>3 DEF Matches, NoFailures, Tick, Window
  <2>3. QED
    BY <2>1, <2>2 DEF Matches
<1>4. CASE entry # NoEntry
  <2>1. entry \in Entry /\ entry.count \in 1..MAX_ATTEMPTS /\ entry.first \in 0..(WINDOW_SECONDS + 1)
    BY <1>4 DEF TypeOK, Entry
  <2>2. entry' = [entry EXCEPT !.first = Older(@, WINDOW_SECONDS + 1),
                               !.locked = IF @ > 0 THEN @ - 1 ELSE 0]
    BY <1>4 DEF Tick, EntryOfWindow, AgedEntry
  <2>3. entry'.first = Older(entry.first, WINDOW_SECONDS + 1) /\ entry'.count = entry.count
    BY <2>1, <2>2 DEF Entry
  <2>4. entry' # NoEntry
    BY <2>1, <2>3 DEF NoEntry
  <2>5. CASE entry.first > WINDOW_SECONDS
    <3>1. entry'.first > WINDOW_SECONDS
      BY <1>1, <2>1, <2>3, <2>5 DEF Older
    <3>2. CountAt(failures', Window) <= CountAt(failures, Window)
      BY <1>2, AgesGrow
    <3>3. CountAt(failures, Window) < MAX_ATTEMPTS
      BY <1>4, <2>5 DEF Matches
    <3>4. CountAt(failures', Window) \in Nat /\ CountAt(failures, Window) \in Nat
      BY <1>2, AgedFinite
    <3>5. CountAt(failures', Window) < MAX_ATTEMPTS
      BY <1>1, <3>2, <3>3, <3>4
    <3>6. ~(entry'.first <= WINDOW_SECONDS)
      BY <1>1, <2>1, <2>3, <2>5 DEF Older
    <3>7. QED
      BY <1>2, <2>4, <3>1, <3>5, <3>6 DEF Matches
  <2>6. CASE entry.first = WINDOW_SECONDS
    <3>1. entry'.first = WINDOW_SECONDS + 1
      BY <1>1, <2>3, <2>6 DEF Older
    <3> DEFINE young == Window \ {WINDOW_SECONDS}
    <3>2. Window = young \cup {WINDOW_SECONDS} /\ WINDOW_SECONDS \in Window
      BY <1>1 DEF Window
    <3>3. CountAt(failures', Window) <= CountAt(failures, young)
      <4>1. \A a \in Window : failures'[a] = 0 \/ (a - 1 \in young /\ failures'[a] = failures[a - 1])
        BY <1>1, <1>2 DEF Window
      <4>2. QED
        BY <1>2, <4>1, AgesGrow
    <3>4. CountAt(failures, young \cup {WINDOW_SECONDS})
            = CountAt(failures, young) + failures[WINDOW_SECONDS]
      BY <1>2, <3>2, OneAgeMore
    <3>5. CountAt(failures, Window) <= MAX_ATTEMPTS /\ failures[WINDOW_SECONDS] > 0
      <4>1. CountAt(failures, 0..entry.first) <= entry.count /\ failures[entry.first] > 0
        BY <1>1, <1>4, <2>6 DEF Matches
      <4>2. CountAt(failures, Window) \in Nat
        BY <1>2, AgedFinite
      <4>3. CountAt(failures, Window) <= entry.count
        BY <2>6, <4>1 DEF Window
      <4>4. QED
        BY <1>1, <2>1, <2>6, <4>1, <4>2, <4>3
    <3>6. /\ CountAt(failures', Window) \in Nat /\ CountAt(failures, young) \in Nat
          /\ CountAt(failures, Window) \in Nat /\ failures[WINDOW_SECONDS] \in Nat
      BY <1>2, <3>2, AgedFinite DEF Counts
    <3>7. CountAt(failures, Window) = CountAt(failures, young) + failures[WINDOW_SECONDS]
      BY <3>2, <3>4
    <3> HIDE DEF young
    <3>8. CountAt(failures', Window) < MAX_ATTEMPTS
      BY <1>1, <3>3, <3>5, <3>6, <3>7
    <3>9. entry'.first > WINDOW_SECONDS /\ ~(entry'.first <= WINDOW_SECONDS)
      BY <1>1, <3>1
    <3>10. QED
      BY <1>2, <2>4, <3>8, <3>9 DEF Matches
  <2>7. CASE entry.first < WINDOW_SECONDS
    <3>1. entry'.first = entry.first + 1 /\ entry.first \in Window /\ entry.first + 1 \in Window \ {0}
      BY <1>1, <2>1, <2>3, <2>7 DEF Older, Window
    <3>2. entry'.first \in Int /\ entry.first \in Int
      BY <2>1, <3>1
    <3>3. failures'[entry'.first] > 0
      <4>1. failures[entry.first] > 0
        BY <1>1, <1>4, <2>1, <2>7 DEF Matches
      <4>2. failures'[entry'.first] = failures[entry'.first - 1] /\ entry'.first - 1 = entry.first
        BY <1>2, <3>1, <3>2
      <4>3. QED
        BY <4>1, <4>2
    <3>4. CountAt(failures', 0..entry'.first) <= entry'.count
      <4> DEFINE young == 0..entry.first
                 old == 0..entry'.first
      <4>1. young \subseteq Window /\ old \subseteq Window
        BY <1>1, <3>1, <3>2 DEF Window
      <4>2. \A a \in old : failures'[a] = 0 \/ (a - 1 \in young /\ failures'[a] = failures[a - 1])
        BY <1>2, <3>1, <3>2, <4>1
      <4>3. CountAt(failures, young) <= entry.count
        BY <1>1, <1>4, <2>1, <2>7 DEF Matches
      <4> HIDE DEF young, old
      <4>4. CountAt(failures', old) <= CountAt(failures, young)
        BY <1>2, <4>1, <4>2, AgesGrow
      <4>5. CountAt(failures', old) \in Nat /\ CountAt(failures, young) \in Nat
        BY <1>2, <4>1, AgedFinite
      <4>6. CountAt(failures', old) <= entry'.count
        BY <2>1, <2>3, <4>3, <4>4, <4>5
      <4>7. QED
        BY <4>6 DEF old
    <3>5. CountAt(failures', (entry'.first + 1)..WINDOW_SECONDS) < MAX_ATTEMPTS
      <4> DEFINE young == (entry.first + 1)..WINDOW_SECONDS
                 old == (entry'.first + 1)..WINDOW_SECONDS
      <4>1. young \subseteq Window /\ old \subseteq Window
        BY <1>1, <2>1, <3>1, <3>2 DEF Window
      <4>2. \A a \in old : failures'[a] = 0 \/ (a - 1 \in young /\ failures'[a] = failures[a - 1])
        BY <1>1, <1>2, <2>1, <3>1, <3>2, <4>1 DEF Window
      <4>3. CountAt(failures, young) < MAX_ATTEMPTS
        BY <1>1, <1>4, <2>1, <2>7 DEF Matches
      <4> HIDE DEF young, old
      <4>4. CountAt(failures', old) <= CountAt(failures, young)
        BY <1>2, <4>1, <4>2, AgesGrow
      <4>5. CountAt(failures', old) \in Nat /\ CountAt(failures, young) \in Nat
        BY <1>2, <4>1, AgedFinite
      <4>6. CountAt(failures', old) < MAX_ATTEMPTS
        BY <1>1, <4>3, <4>4, <4>5
      <4>7. QED
        BY <4>6 DEF old
    <3>6. ~(entry'.first > WINDOW_SECONDS)
      BY <1>1, <2>7, <3>1, <3>2
    <3>7. QED
      BY <2>4, <3>3, <3>4, <3>5, <3>6 DEF Matches
  <2>8. QED
    BY <1>1, <2>1, <2>5, <2>6, <2>7
<1>5. QED
  BY <1>3, <1>4

(* Nothing else touches the counter: an attempt that is turned away leaves   *)
(* it alone, one that succeeds clears it.                                    *)
LEMMA NextCounts == TypeOK /\ EntryCountsFailures /\ [Next]_vars => EntryCountsFailures'
<1> SUFFICES ASSUME TypeOK, Matches(entry, failures), [Next]_vars
             PROVE  Matches(entry', failures')
  BY EntryMatches, EntryMatchesNext
<1>1. CASE \E u \in Users : KioskAuth(u)
  <2>1. entry' = NoEntry /\ failures' = NoFailures
    BY <1>1 DEF KioskAuth
  <2>2. QED
    BY <2>1 DEF Matches
<1>2. CASE KioskAuthFails
  <2>1. MayTry /\ entry' = Failed /\ failures' = [failures EXCEPT ![0] = @ + 1]
    BY <1>2 DEF KioskAuthFails
  <2>2. entry \in Entry \cup {NoEntry} /\ failures \in Counts
    BY DEF TypeOK, Counts, Window
  <2>3. Matches(Failed, [failures EXCEPT ![0] = @ + 1])
    BY <2>1, <2>2, FailedMatches
  <2>4. QED
    BY <2>1, <2>3
<1>3. CASE Tick
  BY <1>3, TickMatches
<1>4. ASSUME NEW c, CookieOnly(c)
      PROVE  UNCHANGED <<entry, failures>>
  BY <1>4 DEF CookieOnly
<1>5. CASE SessionStep \/ KioskAuthBlocked \/ BrowserStep \/ AdminStep \/ UNCHANGED vars
  <2>1. UNCHANGED <<entry, failures>>
    BY <1>4, <1>5 DEF SessionStep, NoKiosk, KioskDeactivate, KioskLogout, LogoutUser, SameCookie,
                      Login, KioskActivate, KioskPage, CartActor, ActsAsBorrower, CartAddLoggedIn,
                      KioskAuthBlocked, TurnedAway, BrowserStep, Receive, Lose,
                      AdminStep, DeleteUser, DeleteKiosk, vars
  <2>2. QED
    BY <2>1
<1>6. QED
  BY <1>1, <1>2, <1>3, <1>5 DEF Next, AuthStep

(* Types, stamps and counter together hold in every reachable state. *)
THEOREM InvariantHolds == Spec => []IInv
<1>1. Init => IInv
  <2>1. Init => EntryCountsFailures
    BY DEF Init, EntryCountsFailures
  <2>2. Init => NoCookieIsYounger
    BY DEF Init, NoCookieIsYounger, Cookies
  <2>3. QED
    BY <2>1, <2>2, InitTypeOK DEF IInv
<1>2. IInv /\ [Next]_vars => IInv'
  BY NextTypeOK, NextOld, NextCounts DEF IInv
<1>3. QED
  BY <1>1, <1>2, PTL DEF Spec

(* In a stretch of one window's length fewer attempts fail than in two       *)
(* windows may, whoever tries and however the windows lie.                   *)
THEOREM FailuresAreBoundedThm == Spec => []FailuresAreBounded
<1>1. IInv => FailuresAreBounded
  <2> SUFFICES ASSUME IInv
               PROVE  CountAt(failures, Window) < 2 * MAX_ATTEMPTS
    BY DEF FailuresAreBounded, FailuresAged, CountAt, Aged, Window
  <2>1. TypeOK /\ Matches(entry, failures) /\ failures \in Counts
    BY EntryMatches DEF IInv, TypeOK, Counts, Window
  <2>2. MAX_ATTEMPTS \in Nat \ {0} /\ WINDOW_SECONDS \in Nat
    BY TimesAssumption
  <2>3. CountAt(failures, Window) \in Nat
    BY <2>1, AgedFinite
  <2>4. CASE entry = NoEntry
    BY <2>1, <2>2, <2>4, NoneAged DEF Matches
  <2>5. CASE entry # NoEntry /\ entry.first > WINDOW_SECONDS
    BY <2>1, <2>2, <2>3, <2>5 DEF Matches
  <2>6. CASE entry # NoEntry /\ entry.first <= WINDOW_SECONDS
    <3>1. entry.count \in 1..MAX_ATTEMPTS /\ entry.first \in Window
      BY <2>1, <2>2, <2>6 DEF TypeOK, Entry, Window
    <3> DEFINE recent == 0..entry.first
               older == (entry.first + 1)..WINDOW_SECONDS
    <3>2. Window = recent \cup older /\ recent \subseteq Window /\ older \subseteq Window
      BY <2>2, <3>1 DEF Window
    <3>3. CountAt(failures, recent) <= entry.count /\ CountAt(failures, older) < MAX_ATTEMPTS
      BY <2>1, <2>6 DEF Matches
    <3> HIDE DEF recent, older
    <3>4. CountAt(failures, recent) \in Nat /\ CountAt(failures, older) \in Nat
      BY <2>1, <3>2, AgedFinite
    <3>5. CountAt(failures, Window) <= CountAt(failures, recent) + CountAt(failures, older)
      BY <2>1, <3>2, AgesTogether
    <3>6. QED
      BY <2>2, <2>3, <3>1, <3>3, <3>4, <3>5
  <2>7. QED
    BY <2>1, <2>2, <2>4, <2>5, <2>6 DEF TypeOK, Entry
<1>2. QED
  BY <1>1, InvariantHolds, PTL
=============================================================================
