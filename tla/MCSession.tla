------------------------------ MODULE MCSession ------------------------------
(* A first and a last try, two accounts, one refused request after a refresh. *)
EXTENDS Session

CONSTANTS alice, bob

MCThreads == {"app", "thread", "late"}
MCAccounts == {alice, bob}
MCNumRetries == 2
MCMaxRefused == 1
=============================================================================
