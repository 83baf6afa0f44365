------------------------------ MODULE MCDownloads ------------------------------
\* Two packages of a registry and one of a local source.
EXTENDS Downloads

CONSTANTS a, b, c
================================================================================
