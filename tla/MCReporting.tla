---------------------------- MODULE MCReporting ----------------------------
(* Small instances of Reporting for TLC. *)
EXTENDS Reporting

MCReadings == 1..MaxReadings
MCResults == 1..MaxResults
============================================================================
