------------------------- MODULE MCClassifierStream -------------------------
EXTENDS ClassifierStream

TlsThenHttp == <<"tls_handshake_classifier", "http_classifier">>
TlsOnly == <<"tls_handshake_classifier">>
=============================================================================
