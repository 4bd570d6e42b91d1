----------------------------- MODULE MCReleases -----------------------------
EXTENDS Releases
=============================================================================
