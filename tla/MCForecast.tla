------------------------------ MODULE MCForecast ------------------------------
EXTENDS Forecast
CONSTANTS ann, bob
=============================================================================
