------------------------ MODULE MCAndroidConnection ------------------------
EXTENDS AndroidConnection
=============================================================================
