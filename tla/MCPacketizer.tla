----------------------------- MODULE MCPacketizer -----------------------------
EXTENDS Packetizer
CONSTANTS coredump, event
TwoSources == <<coredump, event>>
===============================================================================
