---------------------------- MODULE MCFileListing ----------------------------
EXTENDS FileListing, TLC
CONSTANTS a, fspa
MCHosts == {<<>>, <<a>>, <<a, fspa>>}
MCForbidden == {<<a, fspa>>}
MCAfterRoot == fspa :> a
===============================================================================
