----------------------------- MODULE MCDownload -----------------------------
\* A small instance of Download for TLC.
EXTENDS Download, TLC

\* The proxies of a directory are alike.
ProxySymmetry == Permutations(Proxies)
=============================================================================
