------------------------------ MODULE MCConsole ------------------------------
(* The instance of Console for TLC.                                        *)
EXTENDS Console

\* <<chunks printed, chunks typed, troubles>>, see Loads
FourLoads == {<<3, 0, 0>>, <<1, 2, 0>>, <<1, 0, 1>>, <<0, 0, 2>>}

=============================================================================
