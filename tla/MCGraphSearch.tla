--------------------------- MODULE MCGraphSearch ----------------------------
\* Every graph of three services, searched from every service in both directions.
EXTENDS GraphSearch

MCService == {"web", "orders", "db"}
=============================================================================
