----------------------- MODULE MCFramebufferCapturer -----------------------
(* Bounds for TLC.                                                           *)
EXTENDS FramebufferCapturer

\* A handler strikes anywhere, or anywhere but in the windows.
Anywhere == Places \ {"dead"}
OutsideWindows == Anywhere \ Windows

=============================================================================
