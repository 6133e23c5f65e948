---- MODULE Accounts ----
(***************************************************************************)
(* Accounts and their sessions (auth/, api/routers/auth.py, and            *)
(* api/routers/users.py).                                                  *)
(*                                                                         *)
(* The users screen refuses what would leave nobody to administer: the     *)
(* handler counts the other active administrators and then writes, in a    *)
(* transaction that sees what others commit in between: a request is two   *)
(* steps. Signing in and changing a password are one transaction each. A   *)
(* process that starts seeds an administrator when there is none at all.   *)
(*                                                                         *)
(* Roles other than admin, and the passwords themselves, are left out.     *)
(***************************************************************************)
EXTENDS Naturals, FiniteSets

CONSTANTS Users,      \* rows of users that may come to exist
          Bootstrap,  \* the one named "admin"
          Screens,    \* requests of the users screen
          LockAfter   \* lockout_threshold

ASSUME AccountsAssumption ==
    /\ Bootstrap \in Users
    /\ LockAfter \in Nat \ {0}

VARIABLES account, \* users
          signedIn, \* how many live sessions each user has: none, one, more
          screen   \* what a request of the users screen has decided to write

accountsVars == <<account, signedIn, screen>>

NoAccount == [exists |-> FALSE, admin |-> FALSE, active |-> FALSE, mustChange |-> FALSE,
              failed |-> 0, locked |-> FALSE]
NewAccount(admin) == [exists |-> TRUE, admin |-> admin, active |-> TRUE, mustChange |-> TRUE,
                      failed |-> 0, locked |-> FALSE]
Nothing == [open |-> FALSE]

\* Faulty variant: an administrator who was deactivated counts.
OtherAdmins(u) == {v \in Users : account[v].exists /\ account[v].admin /\ v # u}

\* other_active_admins.
OtherActiveAdmins(u) ==
    {v \in Users : account[v].exists /\ account[v].admin /\ account[v].active /\ v # u}

AnotherSession(u) == IF signedIn[u] = "none" THEN "one" ELSE "more"

----------------------------------------------------------------------------
AccountsInit ==
    /\ account = [u \in Users |-> NoAccount]
    /\ signedIn = [u \in Users |-> "none"]
    /\ screen = [q \in Screens |-> Nothing]

(* ensure_bootstrap, whenever the API starts and before it serves anybody: *)
(* an administrator who was deactivated counts.                            *)
EnsureBootstrap ==
    /\ \A u \in Users : ~(account[u].exists /\ account[u].admin)
    /\ account' = [account EXCEPT ![Bootstrap] = NewAccount(TRUE)]
    /\ UNCHANGED <<signedIn, screen>>

CreateUser(u, admin) ==
    /\ account[Bootstrap].exists /\ ~account[u].exists
    /\ account' = [account EXCEPT ![u] = NewAccount(admin)]
    /\ UNCHANGED <<signedIn, screen>>

(* set_active and set_roles: the account and the other administrators are  *)
(* read, and refused or decided upon.                                      *)
AskActive(q, u, to) ==
    /\ ~screen[q].open /\ account[u].exists
    /\ ~to /\ account[u].admin => OtherActiveAdmins(u) # {}
    /\ screen' = [screen EXCEPT ![q] = [open |-> TRUE, user |-> u, column |-> "active", to |-> to,
                                        was |-> account[u].active]]
    /\ UNCHANGED <<account, signedIn>>

AskRoles(q, u, to) ==
    /\ ~screen[q].open /\ account[u].exists
    /\ account[u].admin /\ ~to => OtherActiveAdmins(u) # {}
    /\ screen' = [screen EXCEPT ![q] = [open |-> TRUE, user |-> u, column |-> "admin", to |-> to,
                                        was |-> account[u].admin]]
    /\ UNCHANGED <<account, signedIn>>

\* The commit writes the column if it differs from what was read; deactivating ends the
\* sessions.
ScreenCommit(q) ==
    /\ screen[q].open
    /\ LET ask == screen[q]
           row == account[ask.user]
       IN /\ account' = IF ask.to = ask.was THEN account
                        ELSE [account EXCEPT ![ask.user] =
                                 IF ask.column = "active" THEN [row EXCEPT !.active = ask.to]
                                 ELSE [row EXCEPT !.admin = ask.to]]
          /\ signedIn' = IF ask.column = "active" /\ ~ask.to
                         THEN [signedIn EXCEPT ![ask.user] = "none"] ELSE signedIn
    /\ screen' = [screen EXCEPT ![q] = Nothing]

ScreenFails(q) ==
    /\ screen[q].open
    /\ screen' = [screen EXCEPT ![q] = Nothing]
    /\ UNCHANGED <<account, signedIn>>

(* reset_password: a password to be changed, no lock, no sessions.         *)
ResetPassword(u) ==
    /\ account[u].exists
    /\ account' = [account EXCEPT ![u].mustChange = TRUE, ![u].failed = 0, ![u].locked = FALSE]
    /\ signedIn' = [signedIn EXCEPT ![u] = "none"]
    /\ UNCHANGED screen

----------------------------------------------------------------------------
(* authenticate: it answers a person who is there, active and not locked.  *)
MayTry(u) == account[u].exists /\ account[u].active /\ ~account[u].locked

Login(u) ==
    /\ MayTry(u)
    /\ account' = [account EXCEPT ![u].failed = 0, ![u].locked = FALSE]
    /\ signedIn' = [signedIn EXCEPT ![u] = AnotherSession(u)]
    /\ UNCHANGED screen

\* The failure is committed before it is answered; the count is not started again when a
\* lock ends, and is told apart up to one over the threshold.
LoginFails(u) ==
    /\ MayTry(u)
    /\ LET failed == IF account[u].failed > LockAfter THEN account[u].failed
                     ELSE account[u].failed + 1
       IN account' = [account EXCEPT ![u].failed = failed,
                                     ![u].locked = failed >= LockAfter]
    /\ UNCHANGED <<signedIn, screen>>

LockEnds(u) ==
    /\ account[u].locked
    /\ account' = [account EXCEPT ![u].locked = FALSE]
    /\ UNCHANGED <<signedIn, screen>>

\* change_password: authenticate and set_password; sessions elsewhere go on.
ChangePassword(u) ==
    /\ MayTry(u)
    /\ account' = [account EXCEPT ![u].mustChange = FALSE, ![u].failed = 0, ![u].locked = FALSE]
    /\ signedIn' = [signedIn EXCEPT ![u] = AnotherSession(u)]
    /\ UNCHANGED screen

\* logout, the idle limit and the session's end.
SessionEnds(u) ==
    /\ signedIn[u] # "none"
    /\ signedIn' = [signedIn EXCEPT ![u] = IF signedIn[u] = "one" THEN "none" ELSE "one"]
    /\ UNCHANGED <<account, screen>>

----------------------------------------------------------------------------
AccountsNext ==
    \/ EnsureBootstrap
    \/ \E u \in Users :
           \/ \E admin \in BOOLEAN : CreateUser(u, admin)
           \/ \E q \in Screens, to \in BOOLEAN : AskActive(q, u, to) \/ AskRoles(q, u, to)
           \/ ResetPassword(u) \/ Login(u) \/ LoginFails(u) \/ LockEnds(u)
           \/ ChangePassword(u) \/ SessionEnds(u)
    \/ \E q \in Screens : ScreenCommit(q) \/ ScreenFails(q)

AccountsSpec == AccountsInit /\ [][AccountsNext]_accountsVars

----------------------------------------------------------------------------
AnAccount == [exists : BOOLEAN, admin : BOOLEAN, active : BOOLEAN, mustChange : BOOLEAN,
              failed : 0 .. LockAfter + 1, locked : BOOLEAN]

\* The types of the accounts, the sessions and the users screen.
AccountsTypeOK ==
    /\ account \in [Users -> AnAccount]
    /\ signedIn \in [Users -> {"none", "one", "more"}]
    /\ DOMAIN screen = Screens
    /\ \A q \in Screens :
           \/ screen[q] = Nothing
           \/ screen[q] \in [open : {TRUE}, user : Users, column : {"active", "admin"},
                             to : BOOLEAN, was : BOOLEAN]

\* "The last administrator cannot be removed": there is always an account that is active
\* and may administer, whatever is deactivated, demoted, reset or seeded. One request of
\* the users screen at a time.
SomeAdminRemains ==
    account[Bootstrap].exists =>
        \E u \in Users : account[u].exists /\ account[u].admin /\ account[u].active
====
