----------------------------- MODULE KioskSession -----------------------------
(***************************************************************************)
(* The browser of a kiosk: app/deps.py, app/routes/pieces/kiosk.py,        *)
(* app/routes/auth.py, app/utils/ratelimit.py and the actor of             *)
(* app/routes/loans.py.                                                    *)
(*                                                                         *)
(* The session is a signed cookie and nothing else: the server acts on the *)
(* cookie a request carries and sends another one back.  The browser of a  *)
(* kiosk has several requests under way (pages, tabs, the search field)    *)
(* and takes the cookie of every answer, in the order answers arrive.  A   *)
(* handler is one step; a request is handled when it is sent, for one that *)
(* waits reads what one sent after the late answer of a search reads.      *)
(*                                                                         *)
(* Time passes in ticks.  A stamp is held as the ticks since it was set,   *)
(* up to the first number at which it no longer matters.                   *)
(***************************************************************************)
EXTENDS Integers, FiniteSets

CONSTANTS
    Users, Kiosks,
    None,          \* no user, no kiosk
    Timeout,       \* kiosk_idle_timeout_minutes, when it is switched on
    MAX_ATTEMPTS, WINDOW_SECONDS, LOCKOUT_SECONDS,
    MaxFlight      \* bound: answers on their way at a time

ASSUME NoneAssumption == None \notin Users \cup Kiosks
ASSUME TimesAssumption ==
    /\ Timeout \in Nat \ {0}
    /\ MAX_ATTEMPTS \in Nat \ {0}
    /\ WINDOW_SECONDS \in Nat /\ LOCKOUT_SECONDS \in Nat

VARIABLES
    users,     \* keys of table users
    kiosks,    \* keys of table kiosks
    jar,       \* the cookie the browser holds
    answers,   \* cookies of answers that have not arrived
    entry,     \* ratelimit._state of the kiosk's address
    acted,     \* the last step's use of a borrower: who, and by which check
    silent,    \* ticks since a user was last let in or found active
    failures   \* failed attempts since the last success, by age

vars == <<users, kiosks, jar, answers, entry, acted, silent, failures>>

Ages == 0..(Timeout + 1)
Cookie == [login    : Users \cup {None},
           kiosk    : Kiosks \cup {None},
           borrower : Users \cup {None},
           idle     : Ages]               \* kiosk_borrower_last_active

Entry == [count : 1..MAX_ATTEMPTS, first : 0..(WINDOW_SECONDS + 1), locked : 0..LOCKOUT_SECONDS]
NoEntry == [count |-> 0, first |-> 0, locked |-> 0]
NoFailures == [a \in 0..WINDOW_SECONDS |-> 0]
Nobody == [who |-> None, checked |-> TRUE]

Init ==
    /\ users = Users /\ kiosks = Kiosks
    /\ jar = [login |-> None, kiosk |-> None, borrower |-> None, idle |-> 0]
    /\ answers = {}
    /\ entry = NoEntry
    /\ acted = Nobody
    /\ silent = [u \in Users |-> Timeout + 1]
    /\ failures = NoFailures

-----------------------------------------------------------------------------
(* ratelimit.py *)

Older(age, bound) == IF age < bound THEN age + 1 ELSE bound

(* check_kiosk_attempts; an entry whose window has passed is dropped later.  *)
MayTry ==
    /\ entry.locked = 0
    /\ entry.first > WINDOW_SECONDS \/ entry.count < MAX_ATTEMPTS

(* Fault: the window that has passed is not noticed. *)
FailedInOldWindow ==
    IF entry = NoEntry
    THEN [count |-> 1, first |-> 0, locked |-> 0]
    ELSE [entry EXCEPT !.count = @ + 1,
                       !.locked = IF entry.count + 1 >= MAX_ATTEMPTS THEN LOCKOUT_SECONDS ELSE @]

(* record_kiosk_failure *)
Failed ==
    IF entry = NoEntry \/ entry.first > WINDOW_SECONDS
    THEN [count |-> 1, first |-> 0, locked |-> 0]
    ELSE [entry EXCEPT !.count = @ + 1,
                       !.locked = IF entry.count + 1 >= MAX_ATTEMPTS THEN LOCKOUT_SECONDS ELSE @]

(* Fault: an attempt that is turned away counts as a failure. *)
TurnedAwayCounts == entry' = [entry EXCEPT !.first = 0, !.locked = LOCKOUT_SECONDS]

(* An attempt that is turned away leaves the counter alone. *)
TurnedAway == entry' = entry

-----------------------------------------------------------------------------
(* deps.py *)

(* Fault: the stamp is touched before it is looked at. *)
NeverExpired(c) == FALSE

Expired(c) == c.borrower # None /\ c.idle > Timeout
Active(c) == c.borrower # None /\ ~Expired(c)
SignedOut(c) == [c EXCEPT !.borrower = None, !.idle = 0]

(* kiosk_borrower_id_if_active: the cookie it leaves. *)
Touched(c) == IF Active(c) THEN [c EXCEPT !.idle = 0] ELSE SignedOut(c)

AtKiosk(c) == c.kiosk \in kiosks

-----------------------------------------------------------------------------
(* The handlers.  Each gets the cookie the browser holds. *)

Replies(c) ==
    /\ Cardinality(answers) < MaxFlight
    /\ answers' = answers \cup {c}
    /\ UNCHANGED <<users, kiosks, jar>>

(* Handlers that write nothing but the cookie c. *)
CookieOnly(c) ==
    /\ Replies(c)
    /\ acted' = Nobody
    /\ UNCHANGED <<entry, silent, failures>>

(* require_kiosk_session refuses: the kiosk of the cookie is gone. *)
NoKiosk == ~AtKiosk(jar) /\ CookieOnly([jar EXCEPT !.kiosk = None])

(* login_submit, for whoever knows the password *)
Login(u) == u \in users /\ CookieOnly([jar EXCEPT !.login = u])

(* logout *)
LogoutUser == CookieOnly([jar EXCEPT !.login = None])

(* kiosk_activate: whoever is logged in stays so. *)
KioskActivate(k) == k \in kiosks /\ CookieOnly([SignedOut(jar) EXCEPT !.kiosk = k])

(* kiosk_deactivate *)
KioskDeactivate == CookieOnly([SignedOut(jar) EXCEPT !.kiosk = None])

(* kiosk_logout *)
KioskLogout == AtKiosk(jar) /\ CookieOnly(SignedOut(jar))

(* Fault: every answer sets the stamp. *)
FreshCookie == AtKiosk(jar) /\ CookieOnly([jar EXCEPT !.idle = 0])

(* kiosk_search does not ask who is there; the cart's handlers and           *)
(* require_kiosk_editor ask only if nobody is logged in.                     *)
SameCookie == (AtKiosk(jar) \/ jar.login # None) /\ CookieOnly(jar)

(* kiosk_auth or kiosk_qr_auth, with the right PIN or code. *)
KioskAuth(u) ==
    /\ AtKiosk(jar)
    /\ MayTry /\ u \in users
    /\ Replies([jar EXCEPT !.borrower = u, !.idle = 0])
    /\ entry' = NoEntry
    /\ failures' = NoFailures
    /\ silent' = [silent EXCEPT ![u] = 0]
    /\ acted' = Nobody

(* The same with a wrong one, or for a user that is gone. *)
KioskAuthFails ==
    /\ AtKiosk(jar)
    /\ MayTry
    /\ Replies(jar)
    /\ entry' = Failed
    /\ failures' = [failures EXCEPT ![0] = @ + 1]
    /\ acted' = Nobody
    /\ UNCHANGED silent

(* The same, and check_kiosk_attempts says no. *)
KioskAuthBlocked ==
    /\ AtKiosk(jar)
    /\ ~MayTry
    /\ Replies(jar)
    /\ TurnedAway
    /\ acted' = Nobody
    /\ UNCHANGED <<silent, failures>>

(* The cookie's borrower is asked for, and acts if he still has an account.  *)
ActsAsBorrower ==
    LET u == jar.borrower IN
    /\ Replies(Touched(jar))
    /\ silent' = IF Active(jar) THEN [silent EXCEPT ![u] = 0] ELSE silent
    /\ acted' = IF Active(jar) /\ u \in users THEN [who |-> u, checked |-> TRUE] ELSE Nobody
    /\ UNCHANGED <<entry, failures>>

(* kiosk_input, kiosk_piece and kiosk_checkout: by _kiosk_borrower. *)
KioskPage == AtKiosk(jar) /\ ActsAsBorrower

(* require_cart_actor and require_kiosk_editor when nobody is logged in. *)
CartActor == jar.login = None /\ ActsAsBorrower

(* cart_add from a kiosk's page: the actor is who is logged in, the cart is  *)
(* that of the borrower, read from the cookie as it is.                      *)
CartAddLoggedIn ==
    /\ jar.login \in users /\ jar.borrower \in users
    /\ Replies(jar)
    /\ acted' = [who |-> jar.borrower, checked |-> FALSE]
    /\ UNCHANGED <<entry, silent, failures>>

-----------------------------------------------------------------------------
(* The browser, the administrator and the clock *)

(* An answer arrives and its cookie replaces the browser's. *)
Receive(c) ==
    /\ answers' = answers \ {c}
    /\ jar' = c
    /\ acted' = Nobody
    /\ UNCHANGED <<users, kiosks, entry, silent, failures>>

(* An answer is lost, or has no cookie because the handler wrote none. *)
Lose(c) ==
    /\ answers' = answers \ {c}
    /\ acted' = Nobody
    /\ UNCHANGED <<users, kiosks, jar, entry, silent, failures>>

(* delete_user_action, for a user that nothing refers to *)
DeleteUser(u) ==
    /\ u \in users
    /\ users' = users \ {u}
    /\ acted' = Nobody
    /\ UNCHANGED <<kiosks, jar, answers, entry, silent, failures>>

(* delete_kiosk *)
DeleteKiosk(k) ==
    /\ k \in kiosks
    /\ kiosks' = kiosks \ {k}
    /\ acted' = Nobody
    /\ UNCHANGED <<users, jar, answers, entry, silent, failures>>

AgedCookie(c) ==
    IF c.borrower = None THEN c ELSE [c EXCEPT !.idle = Older(@, Timeout + 1)]

AgedEntry ==
    IF entry = NoEntry THEN entry
    ELSE [entry EXCEPT !.first = Older(@, WINDOW_SECONDS + 1), !.locked = IF @ > 0 THEN @ - 1 ELSE 0]

(* Fault: the counter is forgotten when the lockout is over. *)
EntryOfLockout == IF entry.locked = 1 THEN NoEntry ELSE AgedEntry

(* Stamps grow old; an entry is kept while its window lasts or it locks. *)
EntryOfWindow == AgedEntry

Tick ==
    /\ jar' = AgedCookie(jar)
    /\ answers' = {AgedCookie(c) : c \in answers}
    /\ entry' = EntryOfWindow
    /\ silent' = [u \in Users |-> Older(silent[u], Timeout + 1)]
    /\ failures' = [a \in 0..WINDOW_SECONDS |-> IF a = 0 THEN 0 ELSE failures[a - 1]]
    /\ acted' = Nobody
    /\ UNCHANGED <<users, kiosks>>

-----------------------------------------------------------------------------
SessionStep ==
    \/ NoKiosk \/ KioskDeactivate \/ KioskLogout \/ LogoutUser \/ SameCookie
    \/ \E u \in Users : Login(u)
    \/ \E k \in Kiosks : KioskActivate(k)
    \/ KioskPage \/ CartActor \/ CartAddLoggedIn
AuthStep == (\E u \in Users : KioskAuth(u)) \/ KioskAuthFails \/ KioskAuthBlocked
BrowserStep == \E c \in answers : Receive(c) \/ Lose(c)
AdminStep == (\E u \in Users : DeleteUser(u)) \/ \E k \in Kiosks : DeleteKiosk(k)

Next == SessionStep \/ AuthStep \/ BrowserStep \/ AdminStep \/ Tick

(* The clock goes on. *)
Spec == Init /\ [][Next]_vars /\ WF_vars(Tick)

-----------------------------------------------------------------------------
(* Properties *)

(* Cookies, counters and stamps keep their types; the counter of failed      *)
(* attempts never passes MAX_ATTEMPTS.                                       *)
TypeOK ==
    /\ users \subseteq Users /\ kiosks \subseteq Kiosks
    /\ jar \in Cookie /\ answers \subseteq Cookie
    /\ entry \in Entry \cup {NoEntry}
    /\ acted \in [who : Users \cup {None}, checked : BOOLEAN]
    /\ silent \in [Users -> Ages]
    /\ failures \in [0..WINDOW_SECONDS -> Nat]

(* The cookies that are anywhere: held or on their way back. *)
Cookies == {jar} \cup answers

(* deps.py:77-84: the timeout is to hold for every page and every POST.      *)
(* Whatever answers come late and bring back a cookie that a logout or a     *)
(* timeout has cleared, its stamp is no younger than the last request in     *)
(* which its borrower was found active.                                      *)
NoCookieIsYounger ==
    \A c \in Cookies : c.borrower # None => c.idle >= silent[c.borrower]

(* So nobody acts as a borrower who has been silent for longer than the      *)
(* timeout, where the borrower is asked for by kiosk_borrower_id_if_active.  *)
(* (cart_add with somebody logged in does not ask, and is not meant here.)   *)
IdleBorrowersAreOut ==
    [][acted'.who # None /\ acted'.checked => silent[acted'.who] <= Timeout]_vars

(* The failed attempts of the given ages, each by age and number. *)
FailuresAged(ages) == UNION {{a} \X (1..failures[a]) : a \in ages}

(* ratelimit.py: windows are counted from their first failure.  Two of them  *)
(* may share a stretch of one window's length, yet in no such stretch does a *)
(* kiosk's address fail twice as often as it may, unless somebody gets in.   *)
FailuresAreBounded == Cardinality(FailuresAged(0..WINDOW_SECONDS)) < 2 * MAX_ATTEMPTS

(* Why: the entry counts what has failed since its window began, and what is *)
(* older is the rest of a window that has lost at least its first failure.   *)
EntryCountsFailures ==
    /\ entry = NoEntry => failures = NoFailures
    /\ entry # NoEntry /\ entry.first <= WINDOW_SECONDS
       => /\ failures[entry.first] > 0
          /\ Cardinality(FailuresAged(0..entry.first)) <= entry.count
          /\ Cardinality(FailuresAged((entry.first + 1)..WINDOW_SECONDS)) < MAX_ATTEMPTS
    /\ entry # NoEntry /\ entry.first > WINDOW_SECONDS
       => /\ failures[0] = 0
          /\ Cardinality(FailuresAged(0..WINDOW_SECONDS)) < MAX_ATTEMPTS

(* The inductive invariant. *)
IInv ==
    /\ TypeOK
    /\ NoCookieIsYounger
    /\ EntryCountsFailures

(* ratelimit.py:5: new attempts are blocked for a while.  Whoever goes on    *)
(* trying, the kiosk is let in again some day.                               *)
LockoutEnds == ~MayTry ~> MayTry
=============================================================================
