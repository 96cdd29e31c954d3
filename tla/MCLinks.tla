-------------------------------- MODULE MCLinks --------------------------------
(* Small instances of Links for TLC. *)
EXTENDS Links

(* One message fits into the narrow picture, two into the wide one. *)
TwoWidths == <<1, 2>>
===============================================================================
