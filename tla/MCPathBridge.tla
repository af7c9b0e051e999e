----------------------------- MODULE MCPathBridge -----------------------------
EXTENDS PathBridge
=============================================================================
