------------------------------- MODULE MCBackup -------------------------------
EXTENDS Backup

MCUnits == {"u1", "u2"}
MCLateUnits == {"u2"}
=============================================================================
