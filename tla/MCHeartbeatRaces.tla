-------------------------- MODULE MCHeartbeatRaces --------------------------
EXTENDS MCHeartbeat, HeartbeatHistory
=============================================================================
