------------------------------- MODULE MCOtpGate -------------------------------
(* A small instance of OtpGate.  One tick is 30 seconds: a TOTP step and the   *)
(* budget of /otp are one tick, the slow command has two (60 s).               *)
EXTENDS OtpGate, TLC

CONSTANT slow

\* Codes recur after Digits steps.  Digits = 2 makes the two outer steps of a
\* tolerance window share their digits.
CONSTANT Digits
MCCodeAt(u, s) == s % Digits

MCCmdTimeout == [c \in Privileged |-> IF c = slow THEN 2 ELSE 1]

\* The configuration before and after an operator withdraws the slow command.
MCAcls == {[u \in User |-> Privileged \cup {Otp}], [u \in User |-> {Otp}]}

Symmetry == Permutations(User) \cup Permutations(Chat)
================================================================================
