---------------------------- MODULE MCGuruDaily ----------------------------
\* Two users who are opted in, one request handler beside the two jobs, any
\* number of midnights.
EXTENDS GuruDaily

MCUsers == {1, 2}
MCOptIns == {MCUsers}
=============================================================================
