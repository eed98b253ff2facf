------------------------------- MODULE MCCameras -------------------------------
EXTENDS CameraRuntime, TLC

\* Venues are interchangeable, and so are the slots requests run in.
Symmetry == Permutations(Venues) \cup Permutations(Clients)
=============================================================================
