------------------------------ MODULE MCOtpLockout ------------------------------
(* A small instance of OtpLockout: two users, two guesses to a lockout.  *)
EXTENDS OtpLockout, TLC

Symmetry == Permutations(User)
================================================================================
