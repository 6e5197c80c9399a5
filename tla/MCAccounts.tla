----------------------------- MODULE MCAccounts -----------------------------
(* An instance of Accounts for TLC: a new user, a default one, and the empty *)
(* names and passwords; every way two calls can be about the same account.   *)
EXTENDS Accounts, TLC

CONSTANTS foxy, newcomer, right, wrong

MCNames     == {foxy, newcomer, NoName}
MCPasswords == {right, wrong, NoPassword}
MCDefaults  == [u \in {foxy} |-> right]

Ask(kind, u, p) == [kind |-> kind, user |-> u, password |-> p]

MCCalls == {Ask("signup", newcomer, right), Ask("signup", newcomer, wrong), Ask("signup", newcomer, NoPassword),
            Ask("signup", NoName, right), Ask("signup", foxy, wrong),
            Ask("login", newcomer, right), Ask("login", newcomer, NoPassword),
            Ask("login", NoName, right)}

\* Threads are alike, in the specification and in all that is checked of it.
MCSymmetry == Permutations(Threads)
=============================================================================
