-------------------------------- MODULE MCOtp --------------------------------
(***************************************************************************)
(* Instances of Otp for TLC.                                               *)
(***************************************************************************)
EXTENDS OtpProps, TLC

\* Requests are alike, and so are sign-ins.
Symmetry == Permutations(Requests) \cup Permutations(SignIns)
==============================================================================
