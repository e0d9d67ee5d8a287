------------------------------ MODULE Services ------------------------------
(***************************************************************************)
(* The services of moonshell that follow the world over D-Bus.  Each has a *)
(* connection of its own and shares nothing with the others: one of them   *)
(* is looked at, whichever it is.                                          *)
(***************************************************************************)
EXTENDS Battery, Network, Mpris, Tray, Notifications

ServicesInit == BatteryInit \/ NetworkInit \/ MprisInit \/ TrayInit \/ NotificationsInit
ServicesNext == BatteryNext \/ NetworkNext \/ MprisNext \/ TrayNext \/ NotificationsNext
ServicesSpec == ServicesInit /\ [][ServicesNext]_bus

\* Those that show the state of something else show it as it is.
BusShown == BatterySettles /\ NetworkInv /\ MprisSettles
=============================================================================
