------------------------------- MODULE MCDHCP -------------------------------
EXTENDS DHCP
=============================================================================
