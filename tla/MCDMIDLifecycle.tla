-------------------------- MODULE MCDMIDLifecycle --------------------------
(* Small instance of DMIDLifecycle: the deployer and one other account.     *)
EXTENDS DMIDLifecycle

CONSTANTS alice, bob

MCAccounts == {alice, bob}
=============================================================================
