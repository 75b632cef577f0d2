------------------------------- MODULE MCVehicle -------------------------------
(* Instances of VehicleAnalytics for TLC. *)
EXTENDS VehicleAnalytics, TLC

CONSTANTS v1, v2, v3, entry, exit, oncoming, truck, car, unknown

Interchangeable == Permutations(Vehicles)
===============================================================================
