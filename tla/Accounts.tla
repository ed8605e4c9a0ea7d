------------------------------ MODULE Accounts ------------------------------
(***************************************************************************)
(* User accounts and sessions of the panel: the users table and its guards *)
(* (src/src/server/store.rs), the stateless signed tokens                  *)
(* (src/src/server/session.rs), the handlers that use them and the seeding *)
(* of the first admin (src/src/server/mod.rs).                             *)
(*                                                                         *)
(* A token is what its payload says; the signature makes it one this server*)
(* issued, and the signing secret is in the database, so it outlives a     *)
(* restart.  What a token grants is decided by the token alone.            *)
(***************************************************************************)
EXTENDS Integers, FiniteSets

CONSTANTS
  Names,         \* usernames username_ok() accepts
  Seed,          \* "admin", the account seeded from KS_ADMIN_PASSWORD
  Ttl,           \* lifetime of a session
  MaxClock        \* bound: the clock's last reading

ASSUME AccountConstants == Seed \in Names /\ Ttl \in Nat /\ MaxClock \in Nat

Roles == {"admin", "viewer"}
Asked == Roles \cup {"other"}     \* roles a request may name
Token == [user : Names, role : Roles, exp : 0..(MaxClock + Ttl)]
Never == -1

VARIABLES
  users,         \* username -> role
  tokens,        \* tokens issued
  clock,
  held           \* history: <<user, role>> -> when the account last had it

avars == <<users, tokens, clock, held>>

Holding(u, at, h) ==
  [ur \in Names \X Roles |-> IF ur[1] \in DOMAIN u /\ u[ur[1]] = ur[2] THEN at ELSE h[ur]]

(* What serve() makes of the users table it opens: the first admin is      *)
(* seeded if there are no users, unless create_user() refuses the password *)
(* (less than 8 characters), which is logged and no more.                  *)
SeedOutcomes(u) ==
  IF DOMAIN u # {} THEN {u} ELSE {u, [n \in {Seed} |-> "admin"]}

(* The first start, on an empty database.                                  *)
AccountsInit ==
  /\ users \in SeedOutcomes([n \in {} |-> "admin"])
  /\ tokens = {} /\ clock = 0
  /\ held = Holding(users, 0, [ur \in Names \X Roles |-> Never])

Admins(u) == {n \in DOMAIN u : u[n] = "admin"}

(* validate() of a token this server signed.                               *)
Valid(t) == t \in tokens /\ clock < t.exp

(* Mutant: the session does not carry the role of the account.             *)
Login_AsAdmin(n) ==
  /\ n \in DOMAIN users
  /\ tokens' = tokens \cup {[user |-> n, role |-> "admin", exp |-> clock + Ttl]}
  /\ UNCHANGED <<users, clock, held>>

(* verify_user() accepts: the session carries the role of this moment.     *)
Login(n) ==
  /\ n \in DOMAIN users
  /\ tokens' = tokens \cup {[user |-> n, role |-> users[n], exp |-> clock + Ttl]}
  /\ UNCHANGED <<users, clock, held>>

(* create_user() knows two roles: whatever is not "viewer" is "admin".     *)
RoleOf(asked) == IF asked = "viewer" THEN "viewer" ELSE "admin"

(* A name that is taken is refused.                                        *)
CreateUser(t, n, asked) ==
  /\ Valid(t) /\ t.role = "admin"
  /\ n \notin DOMAIN users
  /\ users' = [m \in DOMAIN users \cup {n} |-> IF m = n THEN RoleOf(asked) ELSE users[m]]
  /\ held' = Holding(users', clock, held)
  /\ UNCHANGED <<tokens, clock>>

(* Mutant: the last admin can be deleted.                                  *)
DeleteUser_Any(t, n) ==
  /\ Valid(t) /\ t.role = "admin"
  /\ n \in DOMAIN users
  /\ users' = [m \in DOMAIN users \ {n} |-> users[m]]
  /\ UNCHANGED <<tokens, clock, held>>

(* The last admin is not deleted.  The sessions of the account go on.      *)
DeleteUser(t, n) ==
  /\ Valid(t) /\ t.role = "admin"
  /\ n \in DOMAIN users
  /\ ~(users[n] = "admin" /\ Cardinality(Admins(users)) <= 1)
  /\ users' = [m \in DOMAIN users \ {n} |-> users[m]]
  /\ UNCHANGED <<tokens, clock, held>>

Restart ==
  /\ users' \in SeedOutcomes(users)
  /\ held' = Holding(users', clock, held)
  /\ UNCHANGED <<tokens, clock>>

Elapse ==
  /\ clock < MaxClock
  /\ clock' = clock + 1
  /\ held' = Holding(users, clock', held)
  /\ UNCHANGED <<users, tokens>>

AccountsNext ==
  \/ \E n \in Names : Login(n)
  \/ \E t \in tokens, n \in Names :
       DeleteUser(t, n) \/ \E asked \in Asked : CreateUser(t, n, asked)
  \/ Restart \/ Elapse

AccountsSpec == AccountsInit /\ [][AccountsNext]_avars

-----------------------------------------------------------------------------
(* Properties. *)

(* The users table holds the two roles create_user() knows and nothing     *)
(* else, and tokens and times are what session.rs makes of them.           *)
AccountsTypeOK ==
  /\ DOMAIN users \subseteq Names /\ users \in [DOMAIN users -> Roles]
  /\ tokens \subseteq Token /\ clock \in 0..MaxClock
  /\ held \in [Names \X Roles -> {Never} \cup 0..clock]

(* "Never lock yourself out": once there is an account, or anybody has     *)
(* signed in, somebody can administer the panel, whoever deletes whom with *)
(* however old a session.  (A panel whose first admin could not be seeded  *)
(* has no account at all, and a restart with a longer password seeds one;  *)
(* a table of viewers alone would never be seeded again.)                  *)
AdminRemains == (DOMAIN users # {} \/ tokens # {}) => Admins(users) # {}

(* Powers end: a session that is still good belongs to an account that had *)
(* that role less than a session's lifetime ago, though accounts are       *)
(* deleted, and created again with another role, while sessions go on.     *)
PowersExpire ==
  \A t \in tokens : clock < t.exp =>
    /\ held[<<t.user, t.role>>] # Never
    /\ clock < held[<<t.user, t.role>>] + Ttl

=============================================================================
