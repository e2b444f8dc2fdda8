------------------------------ MODULE MCTelemetry -----------------------------
EXTENDS Telemetry, TLC
=============================================================================
