------------------------------ MODULE MCTelemetry ------------------------------
(***************************************************************************)
(* Two readings for model checking Telemetry: lying still, then both ends  *)
(* of the +-2 g range, rounding boundaries below zero, a negative die      *)
(* temperature and one that cannot be read.  They differ in every axis.    *)
(***************************************************************************)
EXTENDS Telemetry

MCReadings ==
  << [um |-> <<-9806, 40000, 9806650>>, die |-> {[val1 |-> 0, val2 |-> -250000]}],
     [um |-> <<19613300, -19613300, -9808>>, die |-> {}] >>
=============================================================================
